---- MODULE Spec2Model ----
(***************************************************************************)
(* A model of the COMSUI interpreter (src/lib-py): the lexer, the          *)
(* persistent bash session protocol, variable expansion and the            *)
(* tree-walking evaluator.                                                 *)
(*                                                                         *)
(* Python strings are sequences of one-character strings.  Python's None   *)
(* where a character is expected is the string "None".                     *)
(***************************************************************************)
EXTENDS Integers, Sequences, FiniteSets, TLC

VARIABLES
    \* ---- Lexer (lexer.py) ----
    source,      \* Lexer.source
    position,    \* Lexer.position (0-based, as in the code)
    line,        \* Lexer.line
    column,      \* Lexer.column
    tokens,      \* Lexer.tokens
    lexPc,       \* where tokenize() is: "off", "run", "done", "raised"
    lexErr,      \* the exception tokenize() raised ("" when none)
    lexIters,    \* iterations of tokenize()'s main loop so far
    \* ---- Execution session (interpreter.py, _init_bash_session and
    \*      _execute_in_session) and the bash process at its other end ----
    sessPc,      \* "off", "new", "handshake", "idle", "reading"
    hashOf,      \* Python's hash() of each command text, fixed per process
    procAlive,   \* whether the bash process is running
    stdinQ,      \* scripts written to bash's stdin and not yet finished
    outPipe,     \* lines in the stdout pipe, not yet read
    errPipe,     \* lines in the stderr pipe, not yet read
    call,        \* the call in progress: its id, command, marker, stdout_lines
    calls,       \* every call made so far: (command, marker)
    results,     \* what each finished call returned or raised
    eofReads,    \* readline() calls of the current loop that returned ''
    \* ---- Variable expansion on its own (interpreter.py, _expand_variables
    \*      and _expand_variables_only) ----
    expPc,       \* "off", "ready", "done"
    expText,     \* the text to expand
    expEnv,      \* Interpreter.variables during the expansion
    expOut,      \* the expanded text
    expCmds,     \* the commands the expansion submitted to the session
    \* ---- Evaluator (interpreter.py, evaluate_program) ----
    program,     \* Program.statements
    argv,        \* sys.argv[2:]
    evPc,        \* "off", "run", "done", "exited", "raised"
    stmtIdx,     \* the statement evaluate_program evaluates next
    interp,      \* the interpreter, its session and the record of the run
    \* ---- Truthiness coercion on its own (interpreter.py, lines 345 and
    \*      432-439) ----
    coPc,        \* "off", "on"
    coValue,     \* the result value coerced
    coIf,        \* <<b>>: the boolean evaluate_if_statement made of it
    coLeft,      \* <<b>>: the boolean evaluate_compound_statement made of it
    \* ---- Parser (parser.py) ----
    parTokens,   \* Parser.tokens
    parPc,       \* "off", "ready", "parsed", "raised", "loaded"
    parOut       \* what Parser.parse returned or raised

lexVars == <<source, position, line, column, tokens, lexPc, lexErr, lexIters>>

sessVars == <<sessPc, hashOf, procAlive, stdinQ, outPipe,
              errPipe, call, calls, results, eofReads>>

expVars == <<expPc, expText, expEnv, expOut, expCmds>>

evalVars == <<program, argv, evPc, stmtIdx, interp>>

coVars == <<coPc, coValue, coIf, coLeft>>

parVars == <<parTokens, parPc, parOut>>

vars == <<lexVars, sessVars, expVars, evalVars, coVars, parVars>>

None == "None"

\* The backquote character (written as a name: the character itself is
\* special to the TLA+ tools even inside a string).
Backtick == "BACKQUOTE"

(***************************************************************************)
(* Bounds of the model.                                                    *)
(***************************************************************************)
MaxSrcLen == 3     \* longest source text the lexer is run on
MaxStall == 2      \* main-loop iterations explored beyond one per character
MaxCalls == 2      \* calls of _execute_in_session in one session
MaxOut == 1        \* stdout lines one command prints before its marker line
MaxErr == 2        \* stderr lines one command prints
MaxEofReads == 2   \* reads at end-of-file followed within one loop
MaxHashQuot == 1   \* hash values range over q * HashMod + r, q in 0..MaxHashQuot,
MaxHashRem == 1    \*   r in 0..MaxHashRem
MaxTextLen == 4    \* longest text expanded on its own
MaxInt == 2        \* integers coerced range over -MaxInt..MaxInt
MaxProgLen == 2    \* most statements in a program
MaxRounds == 2     \* rounds of the substitution loop of an assignment followed
MaxToks == 4       \* most tokens before EOF in a token list parsed
MaxInnerLen == 4   \* longest text with nested parentheses inside a $( ) or $(( ))

RECURSIVE SeqsUpTo(_, _)
SeqsUpTo(S, n) ==
    IF n = 0 THEN {<<>>}
    ELSE LET shorter == SeqsUpTo(S, n - 1)
         IN  shorter \cup {Append(s, c) : s \in {t \in shorter : Len(t) = n - 1}, c \in S}

\* Parentheses balance in a text: none closes before it was opened (the
\* depth never falls below 0) and none is left open.
RECURSIVE ParenDepth(_, _, _)
ParenDepth(text, i, depth) ==
    IF i > Len(text) \/ depth < 0 THEN depth
    ELSE ParenDepth(text, i + 1, IF text[i] = "(" THEN depth + 1
                                 ELSE IF text[i] = ")" THEN depth - 1
                                 ELSE depth)

Balanced(text) == ParenDepth(text, 1, 0) = 0

\* The text between a prefix and a suffix of a text that has both.
Inner(text, prefix, suffix) == SubSeq(text, Len(prefix) + 1, Len(text) - Len(suffix))

Encloses(text, prefix, suffix) ==
    /\ Len(text) >= Len(prefix) + Len(suffix)
    /\ SubSeq(text, 1, Len(prefix)) = prefix
    /\ SubSeq(text, Len(text) - Len(suffix) + 1, Len(text)) = suffix

\* Texts with balanced, possibly nested parentheses
NestedTexts == {t \in SeqsUpTo({"a", "(", ")"}, MaxInnerLen) : Balanced(t)}

\* $((text)) and $(text): well-formed expansions and substitutions, longer
\* than the sources and texts drawn character by character.
ArithmeticSources == {<<"$", "(", "(">> \o t \o <<")", ")">> : t \in NestedTexts}

SubstitutionSources ==
    {<<"$", "(">> \o t \o <<")">> : t \in {u \in NestedTexts : u # <<>> /\ u[1] # "("}}

(***************************************************************************)
(* token_types.py                                                          *)
(***************************************************************************)
TokenType ==
    {"STRING", "IDENTIFIER", "NUMBER",
     "BLOCK", "ATOM", "OPTS", "IF", "THEN", "ELSE", "FI",
     "WHILE", "DO", "DONE", "FOR", "IN",
     "PIPE", "AND", "OR", "SEMICOLON", "EQUALS",
     "LPAREN", "RPAREN", "LBRACE", "RBRACE",
     "OPTION", "NEWLINE", "EOF", "COMMAND_SUB"}

Token(type, value, ln, col) == [type |-> type, value |-> value, line |-> ln, column |-> col]

(***************************************************************************)
(* Character classes (str.isalpha, str.isdigit, str.isalnum) over the      *)
(* characters the model draws its texts from.                              *)
(***************************************************************************)
Letters ==
    {"a", "b", "c", "d", "e", "f", "g", "h", "i", "j", "k", "l", "m",
     "n", "o", "p", "q", "r", "s", "t", "u", "v", "w", "x", "y", "z"}
Digits == {"0", "1", "2", "3", "4", "5", "6", "7", "8", "9"}
IsAlpha(c) == c \in Letters
IsDigit(c) == c \in Digits
IsAlnum(c) == IsAlpha(c) \/ IsDigit(c)

LexAlphabet ==
    {" ", "\n", "#", "\"", "\\", "$", "(", ")", Backtick, "-", "|", "&", ";", "=", "1", "a", ".", "~"}

(***************************************************************************)
(* Lexer: cursor helpers.  A cursor is the triple the code keeps in        *)
(* self.position, self.line, self.column.                                  *)
(***************************************************************************)
Cursor(p, l, c) == [pos |-> p, line |-> l, col |-> c]

current_char(cur) ==
    IF cur.pos >= Len(source) THEN None ELSE source[cur.pos + 1]

peek_char(cur, offset) ==
    IF cur.pos + offset >= Len(source) THEN None ELSE source[cur.pos + offset + 1]

advance(cur) ==
    IF current_char(cur) = "\n"
    THEN Cursor(cur.pos + 1, cur.line + 1, 1)
    ELSE Cursor(cur.pos + 1, cur.line, cur.col + 1)

\* skip_whitespace: `while self.current_char() in ' \t'`.  At the end of the
\* source current_char() is None and `None in ' \t'` raises TypeError.
RECURSIVE skip_whitespace(_)
skip_whitespace(cur) ==
    LET c == current_char(cur) IN
    IF c = None THEN [cur |-> cur, raised |-> TRUE]
    ELSE IF c \in {" ", "\t"} THEN skip_whitespace(advance(cur))
    ELSE [cur |-> cur, raised |-> FALSE]

RECURSIVE skip_comment(_)
skip_comment(cur) ==
    LET c == current_char(cur) IN
    IF c # None /\ c # "\n" THEN skip_comment(advance(cur)) ELSE cur

EscapeChar(e, quote_char) ==
    IF e = "n" THEN "\n"
    ELSE IF e = "t" THEN "\t"
    ELSE IF e = "r" THEN "\r"
    ELSE e

RECURSIVE read_string_loop(_, _, _)
read_string_loop(cur, quote_char, result) ==
    LET c == current_char(cur) IN
    IF c = None \/ c = quote_char THEN [cur |-> cur, val |-> result]
    ELSE IF c = "\\"
         THEN LET cur1 == advance(cur)
                  e == current_char(cur1)
              IN  IF e # None
                  THEN read_string_loop(advance(cur1), quote_char,
                                        Append(result, EscapeChar(e, quote_char)))
                  ELSE read_string_loop(cur1, quote_char, result)
         ELSE read_string_loop(advance(cur), quote_char, Append(result, c))

read_string(cur, quote_char) ==
    LET r == read_string_loop(advance(cur), quote_char, <<>>) IN
    IF current_char(r.cur) = quote_char
    THEN [cur |-> advance(r.cur), val |-> r.val]
    ELSE r

RECURSIVE read_identifier_loop(_, _)
read_identifier_loop(cur, result) ==
    LET c == current_char(cur) IN
    IF c # None /\ (IsAlnum(c) \/ c \in {"_", "-"})
    THEN read_identifier_loop(advance(cur), Append(result, c))
    ELSE [cur |-> cur, val |-> result]

read_identifier(cur) == read_identifier_loop(cur, <<>>)

RECURSIVE read_arithmetic_loop(_, _, _)
read_arithmetic_loop(cur, result, paren_count) ==
    LET c == current_char(cur) IN
    IF c = None THEN [cur |-> cur, val |-> result]
    ELSE IF c = "("
         THEN read_arithmetic_loop(advance(cur), Append(result, c), paren_count + 1)
    ELSE IF c = ")"
         THEN IF paren_count > 0
              THEN read_arithmetic_loop(advance(cur), Append(result, c), paren_count - 1)
              ELSE LET cur1 == advance(cur) IN
                   IF current_char(cur1) = ")"
                   THEN [cur |-> advance(cur1), val |-> result]
                   ELSE [cur |-> cur1, val |-> result]
    ELSE read_arithmetic_loop(advance(cur), Append(result, c), paren_count)

read_arithmetic_expansion(cur) ==
    IF current_char(cur) = "$" /\ peek_char(cur, 1) = "(" /\ peek_char(cur, 2) = "("
    THEN read_arithmetic_loop(advance(advance(advance(cur))), <<>>, 0)
    ELSE [cur |-> cur, val |-> <<>>]

RECURSIVE read_cmdsub_loop(_, _, _)
read_cmdsub_loop(cur, result, paren_count) ==
    LET c == current_char(cur) IN
    IF c # None /\ paren_count > 0
    THEN LET pc1 == IF c = "(" THEN paren_count + 1
                    ELSE IF c = ")" THEN paren_count - 1
                    ELSE paren_count
         IN  read_cmdsub_loop(advance(cur),
                              IF pc1 > 0 THEN Append(result, c) ELSE result, pc1)
    ELSE [cur |-> cur, val |-> result]

RECURSIVE read_backtick_loop(_, _)
read_backtick_loop(cur, result) ==
    LET c == current_char(cur) IN
    IF c # None /\ c # Backtick
    THEN read_backtick_loop(advance(cur), Append(result, c))
    ELSE [cur |-> cur, val |-> result]

read_command_substitution(cur) ==
    IF current_char(cur) = "$" /\ peek_char(cur, 1) = "("
    THEN IF peek_char(cur, 2) = "("
         THEN [cur |-> cur, val |-> <<>>]
         ELSE read_cmdsub_loop(advance(advance(cur)), <<>>, 1)
    ELSE IF current_char(cur) = Backtick
    THEN LET r == read_backtick_loop(advance(cur), <<>>) IN
         IF current_char(r.cur) = Backtick
         THEN [cur |-> advance(r.cur), val |-> r.val]
         ELSE r
    ELSE [cur |-> cur, val |-> <<>>]

RECURSIVE read_number_loop(_, _)
read_number_loop(cur, number) ==
    LET c == current_char(cur) IN
    IF c # None /\ (IsDigit(c) \/ c = ".")
    THEN read_number_loop(advance(cur), Append(number, c))
    ELSE [cur |-> cur, val |-> number]

RECURSIVE read_other_loop(_, _)
read_other_loop(cur, identifier) ==
    LET c == current_char(cur) IN
    IF c # None /\ (IsAlnum(c) \/ c \in {"_", ".", "-", "/", ":", "@", "$"})
    THEN read_other_loop(advance(cur), Append(identifier, c))
    ELSE [cur |-> cur, val |-> identifier]

Keywords ==
    [k \in {<<"b","l","o","c","k">>, <<"a","t","o","m">>, <<"o","p","t","s">>,
            <<"i","f">>, <<"t","h","e","n">>, <<"e","l","s","e">>, <<"f","i">>} |->
        CASE k = <<"b","l","o","c","k">> -> "BLOCK"
          [] k = <<"a","t","o","m">> -> "ATOM"
          [] k = <<"o","p","t","s">> -> "OPTS"
          [] k = <<"i","f">> -> "IF"
          [] k = <<"t","h","e","n">> -> "THEN"
          [] k = <<"e","l","s","e">> -> "ELSE"
          [] k = <<"f","i">> -> "FI"]

KeywordType(identifier) ==
    IF identifier \in DOMAIN Keywords THEN Keywords[identifier] ELSE "IDENTIFIER"

SingleCharType(c) ==
    CASE c = ";" -> "SEMICOLON"
      [] c = "=" -> "EQUALS"
      [] c = "(" -> "LPAREN"
      [] c = ")" -> "RPAREN"
      [] c = "{" -> "LBRACE"
      [] c = "}" -> "RBRACE"

(***************************************************************************)
(* Lexer.tokenize: which branch of the main loop the current character     *)
(* selects (the code tests them in this order).                            *)
(***************************************************************************)
Cur == Cursor(position, line, column)

LexBranch ==
    LET c == current_char(Cur) IN
    IF c = None THEN "eof"
    ELSE IF c \in {" ", "\t"} THEN "whitespace"
    ELSE IF c = "#" THEN "comment"
    ELSE IF c = "\n" THEN "newline"
    ELSE IF c \in {"\"", "'"} THEN "string"
    ELSE IF c = "$" /\ peek_char(Cur, 1) = "(" /\ peek_char(Cur, 2) = "(" THEN "arithmetic"
    ELSE IF (c = "$" /\ peek_char(Cur, 1) = "(") \/ c = Backtick THEN "cmdsub"
    ELSE IF c = "-" /\ peek_char(Cur, 1) = "-" THEN "option"
    ELSE IF c = "|" THEN "pipe"
    ELSE IF c = "&" THEN "amp"
    ELSE IF c \in {";", "=", "(", ")", "{", "}"} THEN "single"
    ELSE IF IsDigit(c) THEN "number"
    ELSE IF IsAlpha(c) \/ c = "_" THEN "identifier"
    ELSE IF c \in {".", "-", "/", ":", "@", "$"} THEN "other"
    ELSE "unknown"

\* The common epilogue of the loop: move the cursor, optionally append one token.
\* Creating a token whose kind is no member of TokenType raises
\* AttributeError (the attribute lookup TokenType.<KIND> fails).
LexOnly == UNCHANGED <<sessVars, expVars, evalVars, coVars, parVars>>

LexGoto(cur) ==
    /\ LexOnly
    /\ position' = cur.pos
    /\ line' = cur.line
    /\ column' = cur.col

LexEmit(cur, type, value) ==
    /\ LexGoto(cur)
    /\ lexIters' = lexIters + 1
    /\ UNCHANGED source
    /\ IF type \in TokenType
       THEN /\ tokens' = Append(tokens, Token(type, value, line, column))
            /\ UNCHANGED <<lexPc, lexErr>>
       ELSE /\ lexPc' = "raised"
            /\ lexErr' = "AttributeError"
            /\ UNCHANGED tokens

LexSkip(cur) ==
    /\ LexGoto(cur)
    /\ lexIters' = lexIters + 1
    /\ UNCHANGED <<source, tokens, lexPc, lexErr>>

\* Every iteration is expected to consume a character; the model follows
\* the loop for MaxStall iterations more than that.
LexRunning == lexPc = "run" /\ lexIters < MaxSrcLen + MaxStall

LexWhitespace ==
    /\ LexRunning /\ LexBranch = "whitespace"
    /\ LET r == skip_whitespace(Cur) IN
       /\ LexGoto(r.cur)
       /\ lexIters' = lexIters + 1
       /\ lexPc' = IF r.raised THEN "raised" ELSE lexPc
       /\ lexErr' = IF r.raised THEN "TypeError" ELSE lexErr
       /\ UNCHANGED <<source, tokens>>

LexComment ==
    /\ LexRunning /\ LexBranch = "comment"
    /\ LexSkip(skip_comment(Cur))

LexNewline ==
    /\ LexRunning /\ LexBranch = "newline"
    /\ LexEmit(advance(Cur), "NEWLINE", <<"\n">>)

LexString ==
    /\ LexRunning /\ LexBranch = "string"
    /\ LET r == read_string(Cur, current_char(Cur)) IN
       LexEmit(r.cur, "STRING", r.val)

LexArithmetic ==
    /\ LexRunning /\ LexBranch = "arithmetic"
    /\ LET r == read_arithmetic_expansion(Cur) IN
       LexEmit(r.cur, "ARITHMETIC_EXPANSION", r.val)

LexCommandSub ==
    /\ LexRunning /\ LexBranch = "cmdsub"
    /\ LET r == read_command_substitution(Cur) IN
       LexEmit(r.cur, "COMMAND_SUB", r.val)

LexOption ==
    /\ LexRunning /\ LexBranch = "option"
    /\ LET r == read_identifier(advance(advance(Cur))) IN
       LexEmit(r.cur, "OPTION", <<"-", "-">> \o r.val)

LexPipe ==
    /\ LexRunning /\ LexBranch = "pipe"
    /\ IF peek_char(Cur, 1) = "|"
       THEN LexEmit(advance(advance(Cur)), "OR", <<"|", "|">>)
       ELSE LexEmit(advance(Cur), "PIPE", <<"|">>)

\* A lone `&` calls read_identifier, whose loop accepts no `&`: it returns ""
\* and leaves the position where it was.
LexAmp ==
    /\ LexRunning /\ LexBranch = "amp"
    /\ IF peek_char(Cur, 1) = "&"
       THEN LexEmit(advance(advance(Cur)), "AND", <<"&", "&">>)
       ELSE LET r == read_identifier(Cur) IN
            LexEmit(r.cur, "IDENTIFIER", r.val)

LexSingle ==
    /\ LexRunning /\ LexBranch = "single"
    /\ LexEmit(advance(Cur), SingleCharType(current_char(Cur)), <<current_char(Cur)>>)

LexNumber ==
    /\ LexRunning /\ LexBranch = "number"
    /\ LET r == read_number_loop(Cur, <<>>) IN
       LexEmit(r.cur, "NUMBER", r.val)

LexIdentifier ==
    /\ LexRunning /\ LexBranch = "identifier"
    /\ LET r == read_identifier(Cur) IN
       LexEmit(r.cur, KeywordType(r.val), r.val)

LexOther ==
    /\ LexRunning /\ LexBranch = "other"
    /\ LET r == read_other_loop(Cur, <<>>) IN
       LexEmit(r.cur, "IDENTIFIER", r.val)

LexUnknown ==
    /\ LexRunning /\ LexBranch = "unknown"
    /\ LexSkip(advance(Cur))

LexEOF ==
    /\ lexPc = "run" /\ LexBranch = "eof"
    /\ tokens' = Append(tokens, Token("EOF", <<>>, line, column))
    /\ lexPc' = "done"
    /\ LexOnly
    /\ UNCHANGED <<source, position, line, column, lexErr, lexIters>>

LexIdle ==
    /\ source = <<>>
    /\ position = 0
    /\ line = 1
    /\ column = 1
    /\ tokens = <<>>
    /\ lexPc = "off"
    /\ lexErr = ""
    /\ lexIters = 0

LexStart ==
    /\ source \in SeqsUpTo(LexAlphabet, MaxSrcLen) \cup ArithmeticSources
                                                  \cup SubstitutionSources
    /\ position = 0
    /\ line = 1
    /\ column = 1
    /\ tokens = <<>>
    /\ lexPc = "run"
    /\ lexErr = ""
    /\ lexIters = 0

LexNext ==
    \/ LexWhitespace
    \/ LexComment
    \/ LexNewline
    \/ LexString
    \/ LexArithmetic
    \/ LexCommandSub
    \/ LexOption
    \/ LexPipe
    \/ LexAmp
    \/ LexSingle
    \/ LexNumber
    \/ LexIdentifier
    \/ LexOther
    \/ LexUnknown
    \/ LexEOF


(***************************************************************************)
(* The execution session: _init_bash_session and _execute_in_session,      *)
(* with the bash process at the other end of the pipes.                    *)
(*                                                                         *)
(* A line of stdout is a record: `ready` (it contains COMSUI_READY), `pre` *)
(* (ordinary text on the line, before any marker text), `mark` (the number *)
(* n of a text CMD_COMPLETE_n: on the line, NoMark when there is none),    *)
(* `suffix` (the text after the last colon of the line), and who printed   *)
(* it: `by` (the id of the call whose command was running, 0 for the       *)
(* bootstrap script) and `echo` (it is the marker echo, not command        *)
(* output).                                                                *)
(***************************************************************************)
HashMod == 10000

Cmds == {"cmdA", "cmdB"}

HashVals == {q * HashMod + r : q \in 0..MaxHashQuot, r \in 0..MaxHashRem}

NoMark == -1
NoCall == [id |-> 0, cmd |-> "", marker |-> NoMark, stdout_lines |-> <<>>]
InitScript == [id |-> 0, cmd |-> "init_script", marker |-> NoMark]

Line(ready, pre, mark, suffix, by, echo) ==
    [ready |-> ready, pre |-> pre, mark |-> mark, suffix |-> suffix, by |-> by, echo |-> echo]

\* What readline() returns at end-of-file: the empty string.
EofLine == Line(FALSE, <<>>, NoMark, <<>>, 0, FALSE)

\* marker = f"CMD_COMPLETE_{hash(command) % 10000}"
MarkerOf(command) == hashOf[command] % HashMod

\* f"{marker}:" in line
ContainsMarker(ln, marker) == ln.mark # NoMark /\ ln.mark = marker

DigitVal(c) ==
    CASE c = "0" -> 0 [] c = "1" -> 1 [] c = "2" -> 2 [] c = "3" -> 3 [] c = "4" -> 4
      [] c = "5" -> 5 [] c = "6" -> 6 [] c = "7" -> 7 [] c = "8" -> 8 [] c = "9" -> 9

RECURSIVE DigitsValue(_)
DigitsValue(s) ==
    IF s = <<>> THEN 0
    ELSE 10 * DigitsValue(SubSeq(s, 1, Len(s) - 1)) + DigitVal(s[Len(s)])

\* int(text): the value of a string of decimal digits, ValueError otherwise.
ParseInt(s) ==
    IF s # <<>> /\ \A i \in 1..Len(s) : IsDigit(s[i])
    THEN [ok |-> TRUE, val |-> DigitsValue(s)]
    ELSE [ok |-> FALSE, val |-> 0]

SessOnly == UNCHANGED <<lexVars, expVars, evalVars, coVars, parVars>>

\* __init__ and the first half of _init_bash_session: start bash, write the
\* bootstrap script that ends in `echo "COMSUI_READY"`.
SessStart ==
    /\ SessOnly
    /\ sessPc = "new"
    /\ sessPc' = "handshake"
    /\ stdinQ' = <<InitScript>>
    /\ UNCHANGED <<hashOf, procAlive, outPipe, errPipe, call,
                   calls, results, eofReads>>

\* One iteration of `while True: line = stdout.readline(); if "COMSUI_READY"
\* in line: break`.  readline() blocks while the pipe is empty and bash runs,
\* and returns '' once bash has exited and the pipe is drained.
HandshakeRead ==
    /\ SessOnly
    /\ sessPc = "handshake"
    /\ \/ /\ outPipe # <<>>
          /\ outPipe' = Tail(outPipe)
          /\ sessPc' = IF Head(outPipe).ready THEN "idle" ELSE "handshake"
          /\ UNCHANGED eofReads
       \/ /\ outPipe = <<>> /\ ~procAlive
          /\ eofReads < MaxEofReads
          /\ eofReads' = eofReads + 1
          /\ UNCHANGED <<outPipe, sessPc>>
    /\ UNCHANGED <<hashOf, procAlive, stdinQ, errPipe, call,
                   calls, results>>

\* _execute_in_session up to the loop: the marker, the write to stdin.  A
\* write to the pipe of a process that has exited raises BrokenPipeError.
Call(command) ==
    /\ SessOnly
    /\ sessPc = "idle"
    /\ Len(calls) < MaxCalls
    /\ LET id == Len(calls) + 1
           marker == MarkerOf(command)
       IN  /\ calls' = Append(calls, [cmd |-> command, marker |-> marker])
           /\ IF procAlive
              THEN /\ stdinQ' = Append(stdinQ, [id |-> id, cmd |-> command, marker |-> marker])
                   /\ call' = [id |-> id, cmd |-> command, marker |-> marker,
                               stdout_lines |-> <<>>]
                   /\ sessPc' = "reading"
                   /\ eofReads' = 0
                   /\ UNCHANGED results
              ELSE /\ results' = Append(results,
                          [id |-> id, raised |-> "BrokenPipeError", stdout_lines |-> <<>>,
                           stderr_lines |-> <<>>, return_code |-> 0,
                           marker_line |-> EofLine])
                   /\ UNCHANGED <<stdinQ, call, sessPc, eofReads>>
    /\ UNCHANGED <<hashOf, procAlive, outPipe, errPipe>>

\* The stderr check after the loop: if select() finds stderr readable, one
\* readline(); the line is kept when it is not empty.
StderrTake == IF errPipe # <<>> THEN <<Head(errPipe)>> ELSE <<>>
StderrRest == IF errPipe # <<>> THEN Tail(errPipe) ELSE errPipe

\* One iteration of the read loop, and on the marker line the rest of
\* _execute_in_session.  The result keeps, beside what the call returns, the
\* line on which the loop ended (marker_line).
ReadLine ==
    /\ SessOnly
    /\ sessPc = "reading"
    /\ \/ /\ outPipe # <<>>
          /\ LET ln == Head(outPipe) IN
             /\ outPipe' = Tail(outPipe)
             /\ IF ContainsMarker(ln, call.marker)
                THEN LET rc == ParseInt(ln.suffix) IN
                     /\ sessPc' = "idle"
                     /\ call' = NoCall
                     /\ IF rc.ok
                        THEN /\ results' = Append(results,
                                    [id |-> call.id, raised |-> "",
                                     stdout_lines |-> call.stdout_lines,
                                     stderr_lines |-> StderrTake,
                                     return_code |-> rc.val,
                                     marker_line |-> ln])
                             /\ errPipe' = StderrRest
                        ELSE /\ results' = Append(results,
                                    [id |-> call.id, raised |-> "ValueError",
                                     stdout_lines |-> <<>>, stderr_lines |-> <<>>,
                                     return_code |-> 0,
                                     marker_line |-> ln])
                             /\ UNCHANGED errPipe
                ELSE /\ call' = [call EXCEPT !.stdout_lines = Append(@, ln)]
                     /\ UNCHANGED <<sessPc, results, errPipe>>
          /\ UNCHANGED eofReads
       \/ /\ outPipe = <<>> /\ ~procAlive
          /\ eofReads < MaxEofReads
          /\ eofReads' = eofReads + 1
          /\ call' = [call EXCEPT !.stdout_lines = Append(@, EofLine)]
          /\ UNCHANGED <<outPipe, sessPc, results, errPipe>>
    /\ UNCHANGED <<hashOf, procAlive, stdinQ, calls>>

(***************************************************************************)
(* The bash process.  It runs the scripts of its stdin in order.  What a   *)
(* submitted command prints is up to the command: any lines, among them    *)
(* lines that hold a marker text, and possibly a last line without a       *)
(* newline, which the marker echo then continues.                          *)
(***************************************************************************)
ProcBusy == procAlive /\ stdinQ # <<>>

\* The bootstrap script: the sourced libraries may print, then the sentinel.
ProcInit ==
    /\ SessOnly
    /\ ProcBusy /\ Head(stdinQ) = InitScript
    /\ \E noise \in 0..1 :
          outPipe' = outPipe
                     \o (IF noise = 1 THEN <<Line(FALSE, <<"o">>, NoMark, <<>>, 0, FALSE)>>
                         ELSE <<>>)
                     \o <<Line(TRUE, <<>>, NoMark, <<>>, 0, TRUE)>>
    /\ stdinQ' = Tail(stdinQ)
    /\ UNCHANGED <<sessPc, hashOf, procAlive, errPipe, call, calls,
                   results, eofReads>>

\* The lines a command may print on stdout: ordinary text, or text holding
\* the marker text of some command, followed by a number or by other text.
OutLineChoices(id) ==
    {Line(FALSE, <<"o">>, NoMark, <<>>, id, FALSE)}
    \cup {Line(FALSE, <<"o">>, hashOf[c] % HashMod, suffix, id, FALSE) :
            c \in Cmds, suffix \in {<<"0">>, <<"x">>}}

\* bash runs the next submitted command: it prints `out` on stdout and
\* nerr lines on stderr; then either the command ends with some exit status
\* and bash runs `echo "<marker>:$?"` (`partial`: the last output had no
\* newline, so the echo continues that line), or the command ends bash
\* (`exit`, a kill) and no marker line is printed.
ProcRun ==
    /\ SessOnly
    /\ ProcBusy /\ Head(stdinQ) # InitScript
    /\ LET item == Head(stdinQ) IN
       \E out \in SeqsUpTo(OutLineChoices(item.id), MaxOut), nerr \in 0..MaxErr,
          ending \in {<<"0">>, <<"1">>, <<"exit">>}, partial \in BOOLEAN :
          /\ ending = <<"exit">> => ~partial
          /\ errPipe' = errPipe \o [i \in 1..nerr |-> [by |-> item.id]]
          /\ IF ending = <<"exit">>
             THEN /\ outPipe' = outPipe \o out
                  /\ procAlive' = FALSE
             ELSE /\ outPipe' = outPipe \o out
                         \o <<Line(FALSE, IF partial THEN <<"o">> ELSE <<>>, item.marker,
                                   ending, item.id, TRUE)>>
                  /\ UNCHANGED procAlive
    /\ stdinQ' = Tail(stdinQ)
    /\ UNCHANGED <<sessPc, hashOf, call, calls, results, eofReads>>

\* bash exits: the bootstrap or a command ran `exit`, or bash was killed.
ProcExit ==
    /\ SessOnly
    /\ procAlive
    /\ sessPc # "new"
    /\ procAlive' = FALSE
    /\ UNCHANGED <<sessPc, hashOf, stdinQ, outPipe, errPipe, call,
                   calls, results, eofReads>>

SessIdle ==
    /\ sessPc = "off"
    /\ hashOf = [c \in Cmds |-> 0]
    /\ procAlive = FALSE
    /\ stdinQ = <<>>
    /\ outPipe = <<>>
    /\ errPipe = <<>>
    /\ call = NoCall
    /\ calls = <<>>
    /\ results = <<>>
    /\ eofReads = 0

\* The state when Interpreter.__init__ has started bash (subprocess.Popen).
SessStartState ==
    /\ sessPc = "new"
    /\ hashOf \in [Cmds -> HashVals]
    /\ procAlive = TRUE
    /\ stdinQ = <<>>
    /\ outPipe = <<>>
    /\ errPipe = <<>>
    /\ call = NoCall
    /\ calls = <<>>
    /\ results = <<>>
    /\ eofReads = 0

SessNext ==
    \/ SessStart
    \/ HandshakeRead
    \/ \E command \in Cmds : Call(command)
    \/ ReadLine
    \/ ProcInit
    \/ ProcRun
    \/ ProcExit

(***************************************************************************)
(* Claims about the execution session.                                     *)
(***************************************************************************)

\* C2: when bash exits before a line with the completion marker was read,
\* _execute_in_session stops reading and fails: once readline() has returned
\* end-of-file, the call is not still in its read loop.
C2_EofEndsTheCall == sessPc = "reading" => eofReads = 0

\* C3: when the ready sentinel never appears (bash exited), the handshake
\* fails: once readline() has returned end-of-file, _init_bash_session is not
\* still in its read loop.
C3_EofEndsTheHandshake == sessPc = "handshake" => eofReads = 0

\* C4: within one session the completion markers of any two calls differ.
C4_MarkersNeverRecur ==
    \A i, j \in DOMAIN calls : i # j => calls[i].marker # calls[j].marker

\* C5: the stdout a call returns consists only of lines printed while that
\* call's own command ran: no line of an earlier call is delivered to a
\* later one.
C5_NoCrossDelivery ==
    \A k \in DOMAIN results :
        results[k].raised = "" =>
            \A n \in DOMAIN results[k].stdout_lines :
                results[k].stdout_lines[n].by = results[k].id


(***************************************************************************)
(* Python strings and dicts.                                               *)
(***************************************************************************)
StartsWith(s, prefix) ==
    Len(s) >= Len(prefix) /\ SubSeq(s, 1, Len(prefix)) = prefix

\* The first index >= i at which ch occurs in text, 0 when there is none.
FindFrom(text, i, ch) ==
    IF \E j \in i..Len(text) : text[j] = ch
    THEN CHOOSE j \in i..Len(text) :
            text[j] = ch /\ \A k \in i..(j - 1) : text[k] # ch
    ELSE 0

\* s[i:] starts with sub
OccursAt(s, i, sub) ==
    i + Len(sub) - 1 <= Len(s) /\ SubSeq(s, i, i + Len(sub) - 1) = sub

\* str.replace(old, new), old not empty: every non-overlapping occurrence,
\* left to right.
RECURSIVE ReplaceFrom(_, _, _, _)
ReplaceFrom(s, i, old, new) ==
    IF i > Len(s) THEN <<>>
    ELSE IF OccursAt(s, i, old) THEN new \o ReplaceFrom(s, i + Len(old), old, new)
    ELSE <<s[i]>> \o ReplaceFrom(s, i + 1, old, new)

Replace(s, old, new) == ReplaceFrom(s, 1, old, new)

IsSpace(c) == c \in {" ", "\t", "\n", "\r"}

RECURSIVE LStrip(_)
LStrip(s) == IF s # <<>> /\ IsSpace(s[1]) THEN LStrip(Tail(s)) ELSE s

RECURSIVE RStrip(_)
RStrip(s) ==
    IF s # <<>> /\ IsSpace(s[Len(s)]) THEN RStrip(SubSeq(s, 1, Len(s) - 1)) ELSE s

\* str.strip()
Strip(s) == RStrip(LStrip(s))

\* sep.join(parts)
RECURSIVE Join(_, _)
Join(parts, sep) ==
    IF parts = <<>> THEN <<>>
    ELSE IF Len(parts) = 1 THEN parts[1]
    ELSE parts[1] \o sep \o Join(Tail(parts), sep)

\* str.split(sep) for a one-character sep
RECURSIVE Split(_, _)
Split(s, sep) ==
    LET j == FindFrom(s, 1, sep) IN
    IF j = 0 THEN <<s>>
    ELSE <<SubSeq(s, 1, j - 1)>> \o Split(SubSeq(s, j + 1, Len(s)), sep)

\* A dict is the sequence of its items in insertion order.
Item(n, v) == [name |-> n, value |-> v]
DictHas(d, n) == \E i \in DOMAIN d : d[i].name = n
DictGet(d, n) == d[CHOOSE i \in DOMAIN d : d[i].name = n].value
DictSet(d, n, v) ==
    IF DictHas(d, n)
    THEN [i \in DOMAIN d |-> IF d[i].name = n THEN Item(n, v) ELSE d[i]]
    ELSE Append(d, Item(n, v))
DictDel(d, n) == SelectSeq(d, LAMBDA e : e.name # n)
DictKeys(d) == {d[i].name : i \in DOMAIN d}

(***************************************************************************)
(* Variable expansion: the re.sub of _expand_variables (line 110) and of   *)
(* _expand_variables_only (line 143).                                      *)
(***************************************************************************)
IsNameStart(c) == IsAlpha(c) \/ c = "_"
IsNameChar(c) == IsAlnum(c) \/ c = "_"

\* The end of the longest run of name characters that starts at i.
RECURSIVE NameEnd(_, _)
NameEnd(text, i) ==
    IF i + 1 <= Len(text) /\ IsNameChar(text[i + 1]) THEN NameEnd(text, i + 1) ELSE i

NoMatch == [found |-> FALSE, name |-> <<>>, end |-> 0]

\* A match of \$\{([^}]+)\}|\$([A-Za-z_][A-Za-z0-9_]*) that starts at i:
\* the name (group 1 or group 2) and the index of the last character.
VarMatch(text, i) ==
    IF text[i] # "$" \/ i + 1 > Len(text) THEN NoMatch
    ELSE IF text[i + 1] = "{" /\ FindFrom(text, i + 2, "}") > i + 2
         THEN LET j == FindFrom(text, i + 2, "}") IN
              [found |-> TRUE, name |-> SubSeq(text, i + 2, j - 1), end |-> j]
    ELSE IF IsNameStart(text[i + 1])
         THEN LET e == NameEnd(text, i + 1) IN
              [found |-> TRUE, name |-> SubSeq(text, i + 1, e), end |-> e]
    ELSE NoMatch

\* replace_var: str(self.variables.get(var_name, f"${var_name}"))
replace_var(variables, var_name) ==
    IF DictHas(variables, var_name) THEN DictGet(variables, var_name)
    ELSE <<"$">> \o var_name

RECURSIVE SubVars(_, _, _)
SubVars(text, i, variables) ==
    IF i > Len(text) THEN <<>>
    ELSE LET m == VarMatch(text, i) IN
         IF m.found
         THEN replace_var(variables, m.name) \o SubVars(text, m.end + 1, variables)
         ELSE <<text[i]>> \o SubVars(text, i + 1, variables)

_expand_variables_only(text, variables) == SubVars(text, 1, variables)

\* A match of \$\(([^)]+)\) that starts at i: the command (group 1) and the
\* index of the closing parenthesis.
CmdMatch(text, i) ==
    IF text[i] = "$" /\ i + 1 <= Len(text) /\ text[i + 1] = "("
       /\ FindFrom(text, i + 2, ")") > i + 2
    THEN LET j == FindFrom(text, i + 2, ")") IN
         [found |-> TRUE, name |-> SubSeq(text, i + 2, j - 1), end |-> j]
    ELSE NoMatch

\* text.replace('\\n', '\n').replace('\\t', '\t')
Unescape(text) == Replace(Replace(text, <<"\\", "n">>, <<"\n">>), <<"\\", "t">>, <<"\t">>)


(***************************************************************************)
(* The evaluator (interpreter.py, evaluate and the evaluate_* methods).    *)
(*                                                                         *)
(* The interpreter state is a record: `variables` (self.variables),        *)
(* `should_exit` (self._should_exit), `res` (the value the last evaluate   *)
(* call returned), `exc` (the exception in flight, "" when none) and       *)
(* `exit_code` (the argument of sys.exit).  Here the session is a stub that *)
(* records what is submitted to it in `log` and answers with any outcome;  *)
(* `sessEnv` is what bash holds exported.  `trace`, `ifLog`, `optsLog` and  *)
(* `compLog` record the run: every evaluate() dispatch with its nesting    *)
(* depth and the Environment it saw, every evaluate_if_statement, every    *)
(* evaluate_opts_statement and every evaluate_compound_statement.          *)
(*                                                                         *)
(* A method is an operator from a state to the set of states it can end    *)
(* in, one per behaviour of the external commands.                         *)
(***************************************************************************)
VStr(s) == [t |-> "str", b |-> FALSE, n |-> 0, s |-> s]
VBool(b) == [t |-> "bool", b |-> b, n |-> 0, s |-> <<>>]
VInt(n) == [t |-> "int", b |-> FALSE, n |-> n, s |-> <<>>]
VNone == [t |-> "none", b |-> FALSE, n |-> 0, s |-> <<>>]

\* str(value) for the values evaluate returns
PyStr(v) ==
    CASE v.t = "str" -> v.s
      [] v.t = "bool" -> IF v.b THEN <<"T", "r", "u", "e">> ELSE <<"F", "a", "l", "s", "e">>
      [] v.t = "none" -> <<"N", "o", "n", "e">>
      [] v.t = "int" -> IF v.n = 0 THEN <<"0">> ELSE <<"1">>

\* ast_nodes.py
StringLiteral(value) == [kind |-> "StringLiteral", value |-> value]
Identifier(name) == [kind |-> "Identifier", name |-> name]
CommandSubstitution(command) == [kind |-> "CommandSubstitution", command |-> command]
BlockStatement(options, command) ==
    [kind |-> "BlockStatement", options |-> options, command |-> command]
AtomStatement(description, command) ==
    [kind |-> "AtomStatement", description |-> description, command |-> command]
FunctionCall(name, args) == [kind |-> "FunctionCall", name |-> name, args |-> args]
\* else_branch is None when has_else is FALSE
IfStatement(condition, then_branch, has_else, else_branch) ==
    [kind |-> "IfStatement", condition |-> condition, then_branch |-> then_branch,
     has_else |-> has_else, else_branch |-> else_branch]
VariableAssignment(name, value) ==
    [kind |-> "VariableAssignment", name |-> name, value |-> value]
OptsStatement(option_specs, body) ==
    [kind |-> "OptsStatement", option_specs |-> option_specs, body |-> body]
CompoundStatement(left, operator, right) ==
    [kind |-> "CompoundStatement", left |-> left, operator |-> operator, right |-> right]

\* What a call of the session can do, as the evaluator sees it: return
\* (stdout, stderr, status), or raise (a transport failure).  An export
\* prints nothing and succeeds.
Outcome(out, rc, raises) == [out |-> out, rc |-> rc, raises |-> raises]
Outcomes ==
    {Outcome(<<>>, 0, FALSE), Outcome(<<"o">>, 0, FALSE), Outcome(<<>>, 1, FALSE),
     Outcome(<<>>, 0, TRUE)}
ExportOutcomes == {Outcome(<<>>, 0, FALSE), Outcome(<<>>, 0, TRUE)}

\* A command that prints the text of a substitution of itself, as
\* echo '$(e)' does: what the session can do with it.
EchoCmd == <<"e">>
OutcomesOf(cmd) ==
    IF cmd = EchoCmd THEN Outcomes \cup {Outcome(<<"$", "(">> \o EchoCmd \o <<")">>, 0, FALSE)}
    ELSE Outcomes

\* _execute_in_session, seen from the evaluator
execute(cmd, kind, st) ==
    {[st EXCEPT !.log = Append(@, [cmd |-> cmd, kind |-> kind, env |-> st.variables,
                                   sess |-> st.sessEnv, rc |-> o.rc, raised |-> o.raises]),
                !.exc = IF o.raises THEN "TransportError" ELSE "",
                !.out = o.out,
                !.rc = o.rc] : o \in OutcomesOf(cmd)}

\* export_cmd = f"export {var_name}='{var_value}'"
ExportCmd(item) == <<"e", "x", "p", "o", "r", "t", " ">> \o item.name \o <<"=", "'">> \o item.value \o <<"'">>

\* self._execute_in_session(export_cmd); bash then holds the variable
export_one(item, st) ==
    {[st EXCEPT !.log = Append(@, [cmd |-> ExportCmd(item), kind |-> "export",
                                   env |-> st.variables, sess |-> st.sessEnv,
                                   rc |-> o.rc, raised |-> o.raises]),
                !.exc = IF o.raises THEN "TransportError" ELSE "",
                !.out = o.out,
                !.rc = o.rc,
                !.sessEnv = IF o.raises THEN @ ELSE DictSet(@, item.name, item.value)] :
        o \in ExportOutcomes}

\* for var_name, var_value in self.variables.items(): ... (from the i-th item)
RECURSIVE export_variables(_, _)
export_variables(st, i) ==
    IF st.exc # "" \/ i > Len(st.variables) THEN {st}
    ELSE UNION {export_variables(s, i + 1) : s \in export_one(st.variables[i], st)}

\* replace_cmd: the command with its variables expanded is run; its stripped
\* stdout replaces the match.  `except Exception` swallows a failure and puts
\* the text of the match back.
replace_cmd(cmd, s) ==
    IF s.exc # "" THEN <<"$", "(">> \o cmd \o <<")">> ELSE Strip(s.out)

\* re.sub(r'\$\(([^)]+)\)', replace_cmd, text) from index i on, then the
\* escape sequences; the result is left in res.
RECURSIVE expand_cmds(_, _, _, _)
expand_cmds(text, i, acc, st) ==
    IF i > Len(text) THEN {[st EXCEPT !.res = VStr(Unescape(acc))]}
    ELSE LET m == CmdMatch(text, i) IN
         IF m.found
         THEN UNION {expand_cmds(text, m.end + 1, acc \o replace_cmd(m.name, s),
                                 [s EXCEPT !.exc = ""]) :
                        s \in execute(_expand_variables_only(m.name, st.variables),
                                      "substitution", st)}
         ELSE expand_cmds(text, i + 1, Append(acc, text[i]), st)

_expand_variables(text, st) == expand_cmds(SubVars(text, 1, st.variables), 1, <<>>, st)

\* Command texts
EscapeCommand(command) == Replace(Replace(command, <<"\"">>, <<"\\", "\"">>), <<"\n">>, <<"\\", "n">>)
BlockCmd(options, command) ==
    <<"b", "l", "o", "c", "k", " ">> \o Join(options, <<" ">>) \o <<" ", "\"">> \o EscapeCommand(command) \o <<"\"">>
\* An atom command with its two arguments in the other order.
AtomCmdSwapped(description, command) ==
    <<"a", "t", "o", "m", " ", "\"">> \o command \o <<"\"", " ", "\"">> \o description \o <<"\"">>

AtomCmd(description, command) ==
    <<"a", "t", "o", "m", " ", "\"">> \o description \o <<"\"", " ", "\"">> \o command \o <<"\"">>
QuoteArgs(args) == [i \in DOMAIN args |-> <<"\"">> \o args[i] \o <<"\"">>]
FunctionCmd(func_name, args) == func_name \o <<" ">> \o Join(QuoteArgs(args), <<" ">>)

RECURSIVE evaluate(_, _, _)
RECURSIVE evaluate_list(_, _, _, _)

\* for stmt in stmts: self.evaluate(stmt)  (from the i-th statement); an
\* exception ends the loop.
evaluate_list(stmts, i, st, d) ==
    IF st.exc # "" \/ i > Len(stmts) THEN {st}
    ELSE UNION {evaluate_list(stmts, i + 1, s, d) : s \in evaluate(stmts[i], st, d)}

\* A tail that raises when the command exits non-zero.
ExportAndRunChecked(cmd, kind, st) ==
    UNION {IF s.exc # "" THEN {s}
           ELSE {IF r.exc # "" THEN r
                 ELSE IF r.rc # 0 THEN [r EXCEPT !.exc = "CalledProcessError"]
                 ELSE [r EXCEPT !.res = VBool(TRUE)] :
                    r \in execute(cmd, kind, s)} :
              s \in export_variables(st, 1)}

\* The tail of evaluate_block_statement, evaluate_atom_statement and
\* evaluate_function_call: export every variable, run cmd, return
\* return_code == 0.
ExportAndRun(cmd, kind, st) ==
    UNION {IF s.exc # "" THEN {s}
           ELSE {IF r.exc # "" THEN r ELSE [r EXCEPT !.res = VBool(r.rc = 0)] :
                    r \in execute(cmd, kind, s)} :
              s \in export_variables(st, 1)}

evaluate_block_statement(block, st, d) ==
    UNION {IF s.exc # "" THEN {s}
           ELSE IF s.res.t = "str"
                THEN ExportAndRun(BlockCmd(block.options, s.res.s), "block", s)
                ELSE {[s EXCEPT !.res = VBool(FALSE)]} :
              s \in evaluate(block.command, st, d + 1)}

evaluate_atom_statement(atom, st, d) ==
    UNION {IF s.exc # "" THEN {s}
           ELSE IF s.res.t = "str"
                THEN ExportAndRun(AtomCmd(atom.description, s.res.s), "atom", s)
                ELSE {[s EXCEPT !.res = VBool(FALSE)]} :
              s \in evaluate(atom.command, st, d + 1)}

(***************************************************************************)
(* evaluate_opts_statement                                                 *)
(***************************************************************************)
\* The loop over opts.option_specs: option_map and defaults
RECURSIVE ParseSpecs(_, _, _, _)
ParseSpecs(specs, i, option_map, defaults) ==
    IF i > Len(specs) THEN [option_map |-> option_map, defaults |-> defaults]
    ELSE LET parts == Split(specs[i], ":") IN
         IF Len(parts) >= 2
         THEN LET default == IF Len(parts) > 2 THEN parts[3] ELSE <<>> IN
              ParseSpecs(specs, i + 1, DictSet(option_map, parts[1], parts[2]),
                         IF default # <<>> THEN DictSet(defaults, parts[2], default)
                         ELSE defaults)
         ELSE ParseSpecs(specs, i + 1, option_map, defaults)

\* The loop over args: parsed_vars, or the statement fails on an unknown flag
RECURSIVE ParseArgs(_, _, _, _)
ParseArgs(args, i, option_map, parsed_vars) ==
    IF i > Len(args) THEN [unknown |-> FALSE, parsed_vars |-> parsed_vars]
    ELSE LET arg == args[i] IN
         IF StartsWith(arg, <<"-">>) /\ ~StartsWith(arg, <<"-", "-">>)
         THEN LET flag == Tail(arg) IN
              IF DictHas(option_map, flag)
              THEN LET varname == DictGet(option_map, flag) IN
                   IF i + 1 <= Len(args) /\ ~StartsWith(args[i + 1], <<"-">>)
                   THEN ParseArgs(args, i + 2, option_map,
                                  DictSet(parsed_vars, varname, args[i + 1]))
                   ELSE ParseArgs(args, i + 1, option_map,
                                  DictSet(parsed_vars, varname, <<"t", "r", "u", "e">>))
              ELSE [unknown |-> TRUE, parsed_vars |-> parsed_vars]
         ELSE ParseArgs(args, i + 1, option_map, parsed_vars)

\* Defaults written over the values parsed from the command line.
RECURSIVE SetDefaultsOverride(_, _, _)
SetDefaultsOverride(defaults, i, parsed_vars) ==
    IF i > Len(defaults) THEN parsed_vars
    ELSE SetDefaultsOverride(defaults, i + 1,
                             DictSet(parsed_vars, defaults[i].name, defaults[i].value))

\* for varname, default_val in defaults.items(): if varname not in parsed_vars
RECURSIVE SetDefaults(_, _, _)
SetDefaults(defaults, i, parsed_vars) ==
    IF i > Len(defaults) THEN parsed_vars
    ELSE SetDefaults(defaults, i + 1,
                     IF DictHas(parsed_vars, defaults[i].name) THEN parsed_vars
                     ELSE DictSet(parsed_vars, defaults[i].name, defaults[i].value))

\* old_vars: the prior value of every variable of parsed_vars that had one
RECURSIVE SaveOld(_, _, _, _)
SaveOld(parsed_vars, i, variables, old_vars) ==
    IF i > Len(parsed_vars) THEN old_vars
    ELSE SaveOld(parsed_vars, i + 1, variables,
                 IF DictHas(variables, parsed_vars[i].name)
                 THEN DictSet(old_vars, parsed_vars[i].name,
                              DictGet(variables, parsed_vars[i].name))
                 ELSE old_vars)

\* for varname, value in parsed_vars.items(): self.variables[varname] = value
RECURSIVE Install(_, _, _)
Install(parsed_vars, i, variables) ==
    IF i > Len(parsed_vars) THEN variables
    ELSE Install(parsed_vars, i + 1,
                 DictSet(variables, parsed_vars[i].name, parsed_vars[i].value))

\* The finally block: restore or delete every variable of parsed_vars.
\* `del` of a variable that is not there raises KeyError.
RECURSIVE restore_loop(_, _, _, _)
restore_loop(parsed_vars, i, old_vars, variables) ==
    IF i > Len(parsed_vars) THEN [variables |-> variables, raised |-> FALSE]
    ELSE LET varname == parsed_vars[i].name IN
         IF DictHas(old_vars, varname)
         THEN restore_loop(parsed_vars, i + 1, old_vars,
                           DictSet(variables, varname, DictGet(old_vars, varname)))
         ELSE IF DictHas(variables, varname)
              THEN restore_loop(parsed_vars, i + 1, old_vars, DictDel(variables, varname))
              ELSE [variables |-> variables, raised |-> TRUE]

\* A restoration written after the loop instead of in a finally block: it is
\* skipped when the body raised.
RestoreKeepsNew(parsed_vars, old_vars, st) ==
    IF st.exc # "" THEN [variables |-> st.variables, raised |-> FALSE]
    ELSE restore_loop(parsed_vars, 1, old_vars, st.variables)

Restore(parsed_vars, old_vars, st) == restore_loop(parsed_vars, 1, old_vars, st.variables)

\* for stmt in opts.body: result = self.evaluate(stmt); if self._should_exit:
\* break  (from the i-th statement)
RECURSIVE opts_body(_, _, _, _)
opts_body(body, i, st, d) ==
    IF st.exc # "" \/ st.should_exit \/ i > Len(body) THEN {st}
    ELSE UNION {opts_body(body, i + 1, s, d) : s \in evaluate(body[i], st, d)}

\* try: the body ... finally: the restoration; then return result
OptsFinish(opts, d, st, entered, parsed_vars, old_vars, s) ==
    LET r == Restore(parsed_vars, old_vars, s)
        before == st.variables
    IN
    [s EXCEPT !.variables = r.variables,
              !.exc = IF r.raised THEN "KeyError" ELSE @,
              !.optsLog = Append(@, [node |-> opts, depth |-> d,
                                     installed |-> DictKeys(parsed_vars),
                                     parsed_vars |-> parsed_vars,
                                     before |-> before,
                                     atEntry |-> entered.variables,
                                     failed |-> FALSE,
                                     result |-> s.res,
                                     from |-> Len(st.trace), to |-> Len(s.trace),
                                     logFrom |-> Len(st.log), logTo |-> Len(s.log),
                                     atExit |-> s.variables,
                                     after |-> r.variables,
                                     exc |-> s.exc])]

\* Unknown flag: the two messages on stderr, then return False
OptsFail(opts, d, st) ==
    [st EXCEPT !.res = VBool(FALSE),
               !.optsLog = Append(@, [node |-> opts, depth |-> d, installed |-> {},
                                      parsed_vars |-> <<>>,
                                      before |-> st.variables,
                                      atEntry |-> st.variables,
                                      failed |-> TRUE,
                                      result |-> VBool(FALSE),
                                      from |-> Len(st.trace), to |-> Len(st.trace),
                                      logFrom |-> Len(st.log), logTo |-> Len(st.log),
                                      atExit |-> st.variables,
                                      after |-> st.variables,
                                      exc |-> ""])]

evaluate_opts_statement(opts, st, d) ==
    LET specs == ParseSpecs(opts.option_specs, 1, <<>>, <<>>)
        parsed == ParseArgs(argv, 1, specs.option_map, <<>>)
    IN  IF parsed.unknown THEN {OptsFail(opts, d, st)}
        ELSE LET parsed_vars == SetDefaults(specs.defaults, 1, parsed.parsed_vars)
                 old_vars == SaveOld(parsed_vars, 1, st.variables, <<>>)
                 installed == [st EXCEPT !.variables = Install(parsed_vars, 1, @),
                                         !.res = VNone]
             IN  {OptsFinish(opts, d, st, installed, parsed_vars, old_vars, s) :
                     s \in opts_body(opts.body, 1, installed, d + 1)}

(***************************************************************************)
(* evaluate_compound_statement                                             *)
(***************************************************************************)
\* bool(left_result) if isinstance(left_result, (bool, int)) else
\* left_result == 0
left_success(left_result) ==
    CASE left_result.t = "bool" -> left_result.b
      [] left_result.t = "int" -> left_result.n # 0
      [] OTHER -> FALSE

\* Lines 347-362: the right operand, or the left result
compound_right(compound, s, d) ==
    IF s.exc # "" THEN {s}
    ELSE IF compound.operator = "&&"
         THEN IF left_success(s.res) THEN evaluate(compound.right, s, d + 1) ELSE {s}
    ELSE IF compound.operator = "||"
         THEN IF ~left_success(s.res) THEN evaluate(compound.right, s, d + 1) ELSE {s}
    ELSE {s}

CompoundRecord(compound, d, st, s, e) ==
    [node |-> compound, depth |-> d, from |-> Len(st.trace), to |-> Len(e.trace),
     leftRaised |-> s.exc # "", leftResult |-> s.res, result |-> e.res, exc |-> e.exc]

evaluate_compound_statement(compound, st, d) ==
    UNION {{[e EXCEPT !.compLog = Append(@, CompoundRecord(compound, d, st, s, e))] :
               e \in compound_right(compound, s, d)} :
              s \in evaluate(compound.left, st, d + 1)}

(***************************************************************************)
(* evaluate_function_call                                                  *)
(***************************************************************************)
\* for arg in func_call.args: args.append(str(self.evaluate(arg)))
RECURSIVE eval_args(_, _, _, _, _)
eval_args(args, i, acc, st, d) ==
    IF st.exc # "" \/ i > Len(args) THEN {[st |-> st, args |-> acc]}
    ELSE UNION {eval_args(args, i + 1, Append(acc, PyStr(s.res)), s, d) :
                   s \in evaluate(args[i], st, d + 1)}

\* The strings random.choice can build: here one string per length, made of
\* the first character of the charset.
RandomStrings(length, chars) ==
    IF chars = <<>> /\ length > 0 THEN {}
    ELSE {[i \in 1..length |-> chars[1]]}

\* Convert charset notation to actual characters
CharsOf(charset) ==
    IF charset = <<"A", "-", "Z", "0", "-", "9">> THEN <<"A", "B", "C", "D", "E", "F", "G", "H", "I", "J", "K", "L", "M", "N", "O", "P", "Q", "R", "S", "T", "U", "V", "W", "X", "Y", "Z", "0", "1", "2", "3", "4", "5", "6", "7", "8", "9">>
    ELSE IF charset = <<"A", "-", "Z", "a", "-", "z", "0", "-", "9">>
    THEN <<"a", "b", "c", "d", "e", "f", "g", "h", "i", "j", "k", "l", "m", "n", "o", "p", "q", "r", "s", "t", "u", "v", "w", "x", "y", "z", "A", "B", "C", "D", "E", "F", "G", "H", "I", "J", "K", "L", "M", "N", "O", "P", "Q", "R", "S", "T", "U", "V", "W", "X", "Y", "Z", "0", "1", "2", "3", "4", "5", "6", "7", "8", "9">>
    ELSE charset

s_random(args, st) ==
    LET len == IF args # <<>> THEN ParseInt(args[1]) ELSE [ok |-> TRUE, val |-> 6]
        charset == IF Len(args) > 1 THEN args[2] ELSE <<"A", "-", "Z", "0", "-", "9", "a", "-", "z">>
    IN  IF ~len.ok THEN {[st EXCEPT !.exc = "ValueError"]}
        ELSE IF RandomStrings(len.val, CharsOf(charset)) = {} THEN {[st EXCEPT !.exc = "IndexError"]}
        ELSE {[st EXCEPT !.res = VStr(r)] : r \in RandomStrings(len.val, CharsOf(charset))}

\* exit_code = int(args[0]) if args else 0; self._should_exit = True;
\* sys.exit(exit_code)
return_call(args, st) ==
    LET code == IF args # <<>> THEN ParseInt(args[1]) ELSE [ok |-> TRUE, val |-> 0] IN
    IF ~code.ok THEN [st EXCEPT !.exc = "ValueError"]
    ELSE [st EXCEPT !.should_exit = TRUE, !.exc = "SystemExit", !.exit_code = code.val]

\* input(...) answers yes or no, or fails with EOFError: no.
u_confirm(args, st) == {[st EXCEPT !.res = VBool(b)] : b \in BOOLEAN}

function_call_body(func_name, args, st) ==
    IF func_name = <<"s", "_", "r", "a", "n", "d", "o", "m">> THEN s_random(args, st)
    ELSE IF func_name = <<"r", "e", "t", "u", "r", "n">> THEN {return_call(args, st)}
    ELSE IF func_name = <<"u", "_", "c", "o", "n", "f", "i", "r", "m">> THEN u_confirm(args, st)
    ELSE ExportAndRun(FunctionCmd(func_name, args), "call", st)

evaluate_function_call(func_call, st, d) ==
    UNION {IF a.st.exc # "" THEN {a.st}
           ELSE function_call_body(func_call.name, a.args, a.st) :
              a \in eval_args(func_call.args, 1, <<>>, st, d)}

(***************************************************************************)
(* evaluate_if_statement                                                   *)
(***************************************************************************)
\* Lines 432-439: the condition as a boolean
Coerce(condition_result) ==
    CASE condition_result.t = "bool" -> condition_result.b
      [] condition_result.t = "int" -> condition_result.n = 0
      [] condition_result.t = "str" -> Len(condition_result.s) > 0
      [] OTHER -> FALSE

\* Lines 443-450: the statements that run
\* Two independent ifs instead of if/elif, the second falling through.
IfBranchBoth(condition, if_stmt) ==
    IF condition /\ if_stmt.then_branch # <<>>
    THEN if_stmt.then_branch \o (IF if_stmt.has_else THEN if_stmt.else_branch ELSE <<>>)
    ELSE IF ~condition /\ if_stmt.has_else /\ if_stmt.else_branch # <<>>
    THEN if_stmt.else_branch
    ELSE <<>>

IfBranch(condition, if_stmt) ==
    IF condition /\ if_stmt.then_branch # <<>> THEN if_stmt.then_branch
    ELSE IF ~condition /\ if_stmt.has_else /\ if_stmt.else_branch # <<>>
    THEN if_stmt.else_branch
    ELSE <<>>

IfRecord(if_stmt, d, st, s, e) ==
    [node |-> if_stmt, depth |-> d, from |-> Len(st.trace), to |-> Len(e.trace),
     condRaised |-> s.exc # "", condResult |-> s.res, condLogEnd |-> Len(s.log),
     exc |-> e.exc]

evaluate_if_statement(if_stmt, st, d) ==
    UNION {IF s.exc # ""
           THEN {[s EXCEPT !.ifLog = Append(@, IfRecord(if_stmt, d, st, s, s))]}
           ELSE LET condition == Coerce(s.res) IN
                {[e EXCEPT !.res = IF e.exc = "" THEN VBool(condition) ELSE @,
                           !.ifLog = Append(@, IfRecord(if_stmt, d, st, s, e))] :
                    e \in evaluate_list(IfBranch(condition, if_stmt), 1, s, d + 1)} :
              s \in evaluate(if_stmt.condition, st, d + 1)}

(***************************************************************************)
(* evaluate_command_substitution                                           *)
(***************************************************************************)
Esc == "ESC"

RECURSIVE AnsiEnd(_, _)
AnsiEnd(s, i) ==
    IF i <= Len(s) /\ (IsDigit(s[i]) \/ s[i] = ";") THEN AnsiEnd(s, i + 1) ELSE i

\* re.sub(r'\x1b\[[0-9;]*m', '', output)
RECURSIVE StripAnsi(_, _)
StripAnsi(s, i) ==
    IF i > Len(s) THEN <<>>
    ELSE IF s[i] = Esc /\ i + 1 <= Len(s) /\ s[i + 1] = "["
            /\ AnsiEnd(s, i + 2) <= Len(s) /\ s[AnsiEnd(s, i + 2)] = "m"
         THEN StripAnsi(s, AnsiEnd(s, i + 2) + 1)
         ELSE <<s[i]>> \o StripAnsi(s, i + 1)

Contains(s, sub) == \E i \in 1..Len(s) : OccursAt(s, i, sub)

Noise == {<<"F", "o", "u", "n", "d", " ", "l", "o", "c", "a", "l", " ", "b", "i", "n">>, <<"R", "u", "n", "n", "i", "n", "g", " ", "f", "r", "o", "m", " ", "r", "e", "p", "o", "s", "i", "t", "o", "r", "y">>, <<"S", "k", "i", "p", "p", "e", "d", " ", "s", "y", "n", "c">>}

CleanOutput(stdout) ==
    Strip(Join(SelectSeq(Split(StripAnsi(Strip(stdout), 1), "\n"),
                         LAMBDA ln : ~\E noise \in Noise : Contains(ln, noise)),
               <<"\n">>))

evaluate_command_substitution(cmd_sub, st) ==
    UNION {IF s.exc # "" THEN {s}
           ELSE {IF r.exc # "" THEN r ELSE [r EXCEPT !.res = VStr(CleanOutput(r.out))] :
                    r \in execute(cmd_sub.command, "cmdsub", s)} :
              s \in export_variables(st, 1)}

(***************************************************************************)
(* evaluate_variable_assignment                                            *)
(***************************************************************************)
\* for var_name, var_value in self.variables.items():
\*     value_str = value_str.replace(f"${var_name}", str(var_value))
RECURSIVE ReplaceEachVar(_, _, _)
ReplaceEachVar(value_str, variables, i) ==
    IF i > Len(variables) THEN value_str
    ELSE ReplaceEachVar(Replace(value_str, <<"$">> \o variables[i].name, variables[i].value),
                        variables, i + 1)

\* re.finditer(cmd_pattern, value_str): the matches from index i on
RECURSIVE CmdMatches(_, _)
CmdMatches(text, i) ==
    IF i > Len(text) THEN <<>>
    ELSE LET m == CmdMatch(text, i) IN
         IF m.found THEN <<m.name>> \o CmdMatches(text, m.end + 1)
         ELSE CmdMatches(text, i + 1)

\* for match in re.finditer(...): cmd_result = evaluate_command_substitution
\* (CommandSubstitution(cmd)); value_str = value_str.replace(match.group(0),
\* cmd_result).  The value_str is kept in res.
RECURSIVE assign_for(_, _, _)
assign_for(matches, i, st) ==
    IF st.exc # "" \/ i > Len(matches) THEN {st}
    ELSE UNION {assign_for(matches, i + 1,
                    IF r.exc # "" THEN r
                    ELSE [r EXCEPT !.res = VStr(Replace(st.res.s,
                                          <<"$", "(">> \o matches[i] \o <<")">>, r.res.s))]) :
                   r \in evaluate_command_substitution(CommandSubstitution(matches[i]), st)}

\* while re.search(cmd_pattern, value_str): ...  The model follows the loop
\* for MaxRounds rounds and then gives up with exc = "Unfinished".
RECURSIVE assign_while(_, _)
assign_while(st, round) ==
    IF st.exc # "" \/ CmdMatches(st.res.s, 1) = <<>> THEN {st}
    ELSE IF round >= MaxRounds THEN {[st EXCEPT !.exc = "Unfinished"]}
    ELSE UNION {assign_while(s, round + 1) : s \in assign_for(CmdMatches(st.res.s, 1), 1, st)}

evaluate_variable_assignment(var_assign, st, d) ==
    UNION {IF s.exc # "" THEN {s}
           ELSE {IF v.exc # "" THEN v
                 ELSE [v EXCEPT !.variables = DictSet(@, var_assign.name, PyStr(v.res)),
                                !.res = VStr(PyStr(v.res))] :
                    v \in IF var_assign.value.kind = "StringLiteral"
                          THEN assign_while(
                                 [s EXCEPT !.res = VStr(ReplaceEachVar(PyStr(s.res),
                                                                       s.variables, 1))], 0)
                          ELSE {s}} :
              s \in evaluate(var_assign.value, st, d + 1)}

(***************************************************************************)
(* evaluate: the dispatcher                                                *)
(***************************************************************************)
evaluate(node, st, d) ==
    LET st0 == [st EXCEPT !.trace = Append(@, [node |-> node, depth |-> d,
                                                env |-> st.variables])] IN
    CASE node.kind = "BlockStatement" -> evaluate_block_statement(node, st0, d)
      [] node.kind = "AtomStatement" -> evaluate_atom_statement(node, st0, d)
      [] node.kind = "OptsStatement" -> evaluate_opts_statement(node, st0, d)
      [] node.kind = "CompoundStatement" -> evaluate_compound_statement(node, st0, d)
      [] node.kind = "FunctionCall" -> evaluate_function_call(node, st0, d)
      [] node.kind = "IfStatement" -> evaluate_if_statement(node, st0, d)
      [] node.kind = "CommandSubstitution" -> evaluate_command_substitution(node, st0)
      [] node.kind = "VariableAssignment" -> evaluate_variable_assignment(node, st0, d)
      [] node.kind = "StringLiteral" -> _expand_variables(node.value, st0)
      [] node.kind = "Identifier" ->
            _expand_variables(IF DictHas(st0.variables, node.name)
                              THEN DictGet(st0.variables, node.name)
                              ELSE node.name, st0)
      [] OTHER -> {[st0 EXCEPT !.res = VNone]}


(***************************************************************************)
(* The initial interpreter (Interpreter.__init__) with a live session.     *)
(***************************************************************************)
InterpInit ==
    [variables |-> <<>>, should_exit |-> FALSE, res |-> VNone, exc |-> "",
     exit_code |-> 0, out |-> <<>>, rc |-> 0, sessEnv |-> <<>>, log |-> <<>>,
     trace |-> <<>>, ifLog |-> <<>>, optsLog |-> <<>>, compLog |-> <<>>]

ExpIdle ==
    /\ expPc = "off"
    /\ expText = <<>>
    /\ expEnv = <<>>
    /\ expOut = <<>>
    /\ expCmds = <<>>

EvalIdle ==
    /\ program = <<>>
    /\ argv = <<>>
    /\ evPc = "off"
    /\ stmtIdx = 0
    /\ interp = InterpInit

CoIdle ==
    /\ coPc = "off"
    /\ coValue = VNone
    /\ coIf = <<>>
    /\ coLeft = <<>>

ParIdle ==
    /\ parTokens = <<>>
    /\ parPc = "off"
    /\ parOut = [raised |-> FALSE, pos |-> 1, node |-> [kind |-> "None"],
                 expected |-> "", got |-> "", line |-> 0]

(***************************************************************************)
(* Variable expansion on its own: a text and an Environment are drawn and  *)
(* one of the two expansion methods is applied.                            *)
(***************************************************************************)
ExpAlphabet == {"$", "{", "}", "a", "b"}

ExpEnvs ==
    {<<>>,
     <<Item(<<"a">>, <<"x">>)>>,
     <<Item(<<"a">>, <<"x">>), Item(<<"b">>, <<>>)>>}

ExpOnly == UNCHANGED <<lexVars, sessVars, evalVars, coVars, parVars>>

\* self._expand_variables_only(text)
ExpandVariablesOnly ==
    /\ expPc = "ready"
    /\ expOut' = _expand_variables_only(expText, expEnv)
    /\ expPc' = "only"
    /\ UNCHANGED <<expText, expEnv, expCmds>>
    /\ ExpOnly

\* self._expand_variables(text)
ExpandVariables ==
    /\ expPc = "ready"
    /\ \E s \in _expand_variables(expText, [InterpInit EXCEPT !.variables = expEnv]) :
          /\ expOut' = s.res.s
          /\ expCmds' = [k \in DOMAIN s.log |-> s.log[k].cmd]
    /\ expPc' = "full"
    /\ UNCHANGED <<expText, expEnv>>
    /\ ExpOnly

\* The variable the text is assigned to
AssignedName == <<"r">>

\* self.evaluate(VariableAssignment(name, StringLiteral(text))): the value
\* the assignment stores, or the exception it raises
ExpandAssigned ==
    /\ expPc = "ready"
    /\ \E s \in evaluate_variable_assignment(
                    VariableAssignment(AssignedName, StringLiteral(expText)),
                    [InterpInit EXCEPT !.variables = expEnv], 0) :
          /\ expOut' = IF s.exc = "" THEN DictGet(s.variables, AssignedName) ELSE <<>>
          /\ expCmds' = [k \in DOMAIN s.log |-> s.log[k].cmd]
          /\ expPc' = IF s.exc = "" THEN "assigned" ELSE "raised"
    /\ UNCHANGED <<expText, expEnv>>
    /\ ExpOnly

ExpStart ==
    /\ expPc = "ready"
    /\ expText \in SeqsUpTo(ExpAlphabet, MaxTextLen) \cup SubstitutionSources
    /\ expEnv \in ExpEnvs
    /\ expOut = <<>>
    /\ expCmds = <<>>

ExpNext ==
    \/ ExpandVariablesOnly
    \/ ExpandVariables
    \/ ExpandAssigned

ExpInit == ExpStart /\ LexIdle /\ SessIdle /\ EvalIdle /\ CoIdle /\ ParIdle

SpecExpand == ExpInit /\ [][ExpNext]_vars

(***************************************************************************)
(* Programs.  The statements are the trees parser.py builds for the        *)
(* sources quoted beside them.                                             *)
(***************************************************************************)
Statements ==
    LET Str(t) == StringLiteral(t)
        \* x = "v"
        AssignX == VariableAssignment(<<"x">>, Str(<<"v">>))
        \* x = "w"
        AssignXw == VariableAssignment(<<"x">>, Str(<<"w">>))
        \* y = "2"
        AssignY == VariableAssignment(<<"y">>, Str(<<"2">>))
        \* y = "$(c)"
        AssignSub == VariableAssignment(<<"y">>, Str(<<"$", "(", "c", ")">>))
        \* z = $(c)
        AssignNode == VariableAssignment(<<"z">>, CommandSubstitution(<<"c">>))
        \* block "c"
        BlockC == BlockStatement(<<>>, Str(<<"c">>))
        \* atom "d" "$x"
        AtomC == AtomStatement(<<"d">>, Str(<<"$", "x">>))
        \* f x
        CallF == FunctionCall(<<"f">>, <<Identifier(<<"x">>)>>)
        \* return "1"
        Return1 == FunctionCall(<<"r", "e", "t", "u", "r", "n">>, <<Str(<<"1">>)>>)
        \* if block "c" { x = "v"  y = "2" } else { y = "2"  x = "w" }
        IfBlock == IfStatement(BlockC, <<AssignX, AssignY>>, TRUE, <<AssignY, AssignXw>>)
        \* if "$x" { x = "w"  return "1"  y = "2" }
        IfStr == IfStatement(Str(<<"$", "x">>), <<AssignXw, Return1, AssignY>>, FALSE, None)
        \* if u_confirm { } else { y = "2" }
        IfConfirm == IfStatement(FunctionCall(<<"u", "_", "c", "o", "n", "f", "i", "r", "m">>, <<>>), <<>>, TRUE, <<AssignY>>)
        \* opts "l:x:d" { x = "w"  return "1" }
        OptsReturn == OptsStatement(<<<<"l", ":", "x", ":", "d">>>>, <<AssignXw, Return1>>)
        \* opts "l:x" "m:y:2" { block "c"  x = "w" }
        OptsBlock == OptsStatement(<<<<"l", ":", "x">>, <<"m", ":", "y", ":", "2">>>>, <<BlockC, AssignXw>>)
        \* opts "l:y:$(c)" { block "$y" }
        OptsSub == OptsStatement(<<<<"l", ":", "y", ":", "$", "(", "c", ")">>>>, <<BlockStatement(<<>>, Str(<<"$", "y">>))>>)
        \* block "c" && x = "v"
        AndThen == CompoundStatement(BlockC, "&&", AssignX)
        \* block "c" || x = "w"
        OrElse == CompoundStatement(BlockC, "||", AssignXw)
        \* x = "v" && y = "2"
        AndStr == CompoundStatement(AssignX, "&&", AssignY)
    IN  {AssignX, AssignSub, AssignNode, BlockC, AtomC, CallF, Return1, IfBlock, IfStr,
         IfConfirm, OptsReturn, OptsBlock, OptsSub, AndThen, OrElse, AndStr}

\* sys.argv[2:]
Argvs ==
    {<<>>, <<<<"-", "l">>, <<"u">>>>, <<<<"-", "l">>>>, <<<<"-", "z">>>>,
     <<<<"-", "l">>, <<"u">>, <<"-", "l">>>>, <<<<"-", "-", "z">>>>}

EvalOnly == UNCHANGED <<lexVars, sessVars, expVars, coVars, parVars>>

Running == evPc = "run" /\ stmtIdx <= Len(program)

\* evaluate_program: result = self.evaluate(stmt) returns
EvalStatement ==
    /\ Running
    /\ \E s \in evaluate(program[stmtIdx], interp, 0) :
          /\ s.exc = ""
          /\ interp' = s
    /\ stmtIdx' = stmtIdx + 1
    /\ UNCHANGED <<program, argv, evPc>>
    /\ EvalOnly

\* sys.exit leaves evaluate_program
EvalExit ==
    /\ Running
    /\ \E s \in evaluate(program[stmtIdx], interp, 0) :
          /\ s.exc = "SystemExit"
          /\ interp' = s
    /\ evPc' = "exited"
    /\ UNCHANGED <<program, argv, stmtIdx>>
    /\ EvalOnly

\* an exception leaves evaluate_program
EvalRaise ==
    /\ Running
    /\ \E s \in evaluate(program[stmtIdx], interp, 0) :
          /\ s.exc \notin {"", "SystemExit"}
          /\ interp' = s
    /\ evPc' = "raised"
    /\ UNCHANGED <<program, argv, stmtIdx>>
    /\ EvalOnly

\* return result
EvalReturn ==
    /\ evPc = "run"
    /\ stmtIdx > Len(program)
    /\ evPc' = "done"
    /\ UNCHANGED <<program, argv, stmtIdx, interp>>
    /\ EvalOnly

EvalStart ==
    /\ program \in {p \in SeqsUpTo(Statements, MaxProgLen) : p # <<>>}
    /\ argv \in Argvs
    /\ evPc = "run"
    /\ stmtIdx = 1
    /\ interp = InterpInit

EvalNext ==
    \/ EvalStatement
    \/ EvalExit
    \/ EvalRaise
    \/ EvalReturn

EvalInit == EvalStart /\ LexIdle /\ SessIdle /\ ExpIdle /\ CoIdle /\ ParIdle

SpecEval == EvalInit /\ [][EvalNext]_vars

(***************************************************************************)
(* Programs that forward texts to the session: the examples of the         *)
(* specification, commands with double quotes and newlines in them (the    *)
(* lexer makes these of the escapes \" and \n of a string), and a           *)
(* substitution whose output is a substitution again.                      *)
(***************************************************************************)
ForwardStatements ==
    LET Str(t) == StringLiteral(t)
        \* block "echo hi"
        BlockEcho == BlockStatement(<<>>, Str(<<"e", "c", "h", "o", " ", "h", "i">>))
        \* x = "hello"
        AssignHello == VariableAssignment(<<"x">>, Str(<<"h", "e", "l", "l", "o">>))
        \* atom "greet" "$x world"
        AtomGreet == AtomStatement(<<"g", "r", "e", "e", "t">>,
                                   Str(<<"$", "x", " ", "w", "o", "r", "l", "d">>))
        \* block "$(c)"
        BlockSub == BlockStatement(<<>>, Str(<<"$", "(", "c", ")">>))
        \* block "a\"b\nc"
        BlockQuote == BlockStatement(<<>>, Str(<<"a", "\"", "b", "\n", "c">>))
        \* atom "d" "a\"b"
        AtomQuote == AtomStatement(<<"d">>, Str(<<"a", "\"", "b">>))
        \* f "a\nb"
        CallNewline == FunctionCall(<<"f">>, <<Str(<<"a", "\n", "b">>)>>)
        \* y = "$(e)"
        AssignEcho == VariableAssignment(<<"y">>, Str(<<"$", "(">> \o EchoCmd \o <<")">>))
        \* return "1"
        Return1 == FunctionCall(<<"r", "e", "t", "u", "r", "n">>, <<Str(<<"1">>)>>)
    IN  {BlockEcho, AssignHello, AtomGreet, BlockSub, BlockQuote, AtomQuote, CallNewline, AssignEcho,
         Return1}

ForwardStart ==
    /\ program \in {p \in SeqsUpTo(ForwardStatements, MaxProgLen) : p # <<>>}
    /\ argv = <<>>
    /\ evPc = "run"
    /\ stmtIdx = 1
    /\ interp = InterpInit

ForwardInit == ForwardStart /\ LexIdle /\ SessIdle /\ ExpIdle /\ CoIdle /\ ParIdle

SpecForward == ForwardInit /\ [][EvalNext]_vars

(***************************************************************************)
(* Truthiness coercion on its own: a result value is drawn and the rule of *)
(* evaluate_if_statement and the rule of evaluate_compound_statement are   *)
(* applied to it.                                                          *)
(***************************************************************************)
CoOnly == UNCHANGED <<lexVars, sessVars, expVars, evalVars, parVars>>

\* evaluate_if_statement, lines 432-439
CoerceCondition ==
    /\ coPc = "on"
    /\ coIf = <<>>
    /\ coIf' = <<Coerce(coValue)>>
    /\ UNCHANGED <<coPc, coValue, coLeft>>
    /\ CoOnly

\* evaluate_compound_statement, line 345
CoerceLeft ==
    /\ coPc = "on"
    /\ coLeft = <<>>
    /\ coLeft' = <<left_success(coValue)>>
    /\ UNCHANGED <<coPc, coValue, coIf>>
    /\ CoOnly

CoStart ==
    /\ coPc = "on"
    /\ coValue \in {VBool(TRUE), VBool(FALSE), VNone}
                   \cup {VInt(n) : n \in (0 - MaxInt)..MaxInt}
                   \cup {VStr(t) : t \in SeqsUpTo({"a", "0"}, MaxTextLen)}
    /\ coIf = <<>>
    /\ coLeft = <<>>

CoNext ==
    \/ CoerceCondition
    \/ CoerceLeft

CoInit == CoStart /\ LexIdle /\ SessIdle /\ ExpIdle /\ EvalIdle /\ ParIdle

SpecCoerce == CoInit /\ [][CoNext]_vars

(***************************************************************************)
(* parser.py: the recursive-descent parser as functions of the token list  *)
(* and the position (counted from 1: Python's position p is p + 1 here).   *)
(* Every parsing function yields the position it leaves behind and either  *)
(* the node it returns or the SyntaxError it raises.                       *)
(***************************************************************************)
\* A missing node: Python's None where an AST node is expected.
NoneNode == [kind |-> "None"]

Parsed(pos, node) ==
    [raised |-> FALSE, pos |-> pos, node |-> node, expected |-> "", got |-> "", line |-> 0]

\* Token(TokenType.EOF, '', 0, 0) once the position is past the last token
current_token(toks, pos) ==
    IF pos > Len(toks) THEN Token("EOF", <<>>, 0, 0) ELSE toks[pos]

peek_token(toks, pos, offset) == current_token(toks, pos + offset)

advance_token(toks, pos) == IF pos <= Len(toks) THEN pos + 1 ELSE pos

match(toks, pos, token_types) == current_token(toks, pos).type \in token_types

\* raise SyntaxError(f"Expected {token_type}, got {token.type} at line {token.line}")
SyntaxError(toks, pos, token_type) ==
    [raised |-> TRUE, pos |-> pos, node |-> NoneNode, expected |-> token_type,
     got |-> current_token(toks, pos).type, line |-> current_token(toks, pos).line]

consume(toks, pos, token_type) ==
    IF current_token(toks, pos).type # token_type
    THEN SyntaxError(toks, pos, token_type)
    ELSE Parsed(advance_token(toks, pos), NoneNode)

RECURSIVE skip_newlines(_, _)
skip_newlines(toks, pos) ==
    IF match(toks, pos, {"NEWLINE"}) THEN skip_newlines(toks, advance_token(toks, pos))
    ELSE pos

\* One step after another: an exception raised by a step ends the function,
\* otherwise what the step returned goes to the steps after it.
Then(step, Rest(_)) == IF step.raised THEN step ELSE Rest(step)

\* if stmt: statements.append(stmt)
Collect(statements, stmt) == IF stmt # NoneNode THEN Append(statements, stmt) ELSE statements

parse_expression(toks, pos) ==
    IF match(toks, pos, {"STRING"})
    THEN Parsed(advance_token(toks, pos), StringLiteral(current_token(toks, pos).value))
    ELSE IF match(toks, pos, {"IDENTIFIER"})
    THEN Parsed(advance_token(toks, pos), Identifier(current_token(toks, pos).value))
    ELSE IF match(toks, pos, {"COMMAND_SUB"})
    THEN Parsed(advance_token(toks, pos), CommandSubstitution(current_token(toks, pos).value))
    ELSE IF match(toks, pos, {"OPTION"})
    THEN Parsed(advance_token(toks, pos), StringLiteral(current_token(toks, pos).value))
    ELSE Parsed(pos, NoneNode)

\* the loops that collect the values of consecutive tokens of one type
RECURSIVE take_values(_, _, _, _)
take_values(toks, pos, token_type, acc) ==
    IF match(toks, pos, {token_type})
    THEN take_values(toks, advance_token(toks, pos), token_type,
                     Append(acc, current_token(toks, pos).value))
    ELSE Parsed(pos, acc)

parse_block_statement(toks, pos) ==
    Then(consume(toks, pos, "BLOCK"), LAMBDA c :
    Then(take_values(toks, c.pos, "OPTION", <<>>), LAMBDA options :
    Then(parse_expression(toks, options.pos), LAMBDA command :
    Parsed(command.pos, BlockStatement(options.node, command.node)))))

parse_atom_statement(toks, pos) ==
    Then(consume(toks, pos, "ATOM"), LAMBDA c :
    Then(IF match(toks, c.pos, {"STRING"})
         THEN Parsed(advance_token(toks, c.pos), current_token(toks, c.pos).value)
         ELSE Parsed(c.pos, <<>>), LAMBDA description :
    Then(parse_expression(toks, description.pos), LAMBDA command :
    Parsed(command.pos, AtomStatement(description.node, command.node)))))

\* the argument loop of parse_function_call
RECURSIVE call_args(_, _, _)
call_args(toks, pos, args) ==
    IF match(toks, pos, {"NEWLINE", "SEMICOLON", "EOF", "THEN", "ELSE", "FI"})
    THEN Parsed(pos, args)
    ELSE Then(parse_expression(toks, pos), LAMBDA arg :
         IF arg.node # NoneNode THEN call_args(toks, arg.pos, Append(args, arg.node))
         ELSE Parsed(pos, args))

parse_function_call(toks, pos) ==
    Then(call_args(toks, advance_token(toks, pos), <<>>), LAMBDA args :
    Parsed(args.pos, FunctionCall(current_token(toks, pos).value, args.node)))

parse_variable_assignment(toks, pos) ==
    Then(consume(toks, advance_token(toks, pos), "EQUALS"), LAMBDA c :
    Then(parse_expression(toks, c.pos), LAMBDA value :
    Parsed(value.pos,
           VariableAssignment(current_token(toks, pos).value,
                              IF value.node = NoneNode THEN StringLiteral(<<>>)
                              ELSE value.node))))

RECURSIVE parse_statement(_, _)
RECURSIVE statement_loop(_, _, _, _, _)
RECURSIVE parse_opts_statement(_, _)
RECURSIVE parse_if_statement(_, _)

\* while not self.match(stops): skip_newlines(); if self.match(breaks): break;
\* stmt = self.parse_statement(); if stmt: body.append(stmt)
statement_loop(toks, pos, stops, breaks, body) ==
    IF match(toks, pos, stops) THEN Parsed(pos, body)
    ELSE IF match(toks, skip_newlines(toks, pos), breaks)
    THEN Parsed(skip_newlines(toks, pos), body)
    ELSE Then(parse_statement(toks, skip_newlines(toks, pos)), LAMBDA stmt :
         statement_loop(toks, stmt.pos, stops, breaks, Collect(body, stmt.node)))

parse_opts_statement(toks, pos) ==
    Then(consume(toks, pos, "OPTS"), LAMBDA c :
    Then(take_values(toks, c.pos, "STRING", <<>>), LAMBDA option_specs :
    Then(consume(toks, skip_newlines(toks, option_specs.pos), "LBRACE"), LAMBDA lb :
    Then(statement_loop(toks, skip_newlines(toks, lb.pos),
                        {"RBRACE", "EOF"}, {"RBRACE"}, <<>>), LAMBDA body :
    Then(consume(toks, body.pos, "RBRACE"), LAMBDA rb :
    Parsed(rb.pos, OptsStatement(option_specs.node, body.node)))))))

parse_if_statement(toks, pos) ==
    Then(consume(toks, pos, "IF"), LAMBDA c :
    Then(IF match(toks, c.pos, {"BLOCK"}) THEN parse_block_statement(toks, c.pos)
         ELSE IF match(toks, c.pos, {"IDENTIFIER"}) THEN parse_function_call(toks, c.pos)
         ELSE parse_expression(toks, c.pos), LAMBDA condition :
    Then(consume(toks,
                 skip_newlines(toks, IF match(toks, condition.pos, {"SEMICOLON"})
                                     THEN advance_token(toks, condition.pos)
                                     ELSE condition.pos),
                 "THEN"), LAMBDA then :
    Then(statement_loop(toks, skip_newlines(toks, then.pos),
                        {"ELSE", "FI", "EOF"}, {"ELSE", "FI"}, <<>>), LAMBDA then_branch :
    Then(IF match(toks, then_branch.pos, {"ELSE"})
         THEN statement_loop(toks,
                             skip_newlines(toks, advance_token(toks, then_branch.pos)),
                             {"FI", "EOF"}, {"FI"}, <<>>)
         ELSE Parsed(then_branch.pos, None), LAMBDA else_branch :
    Then(consume(toks, else_branch.pos, "FI"), LAMBDA fi :
    Parsed(fi.pos, IfStatement(condition.node, then_branch.node,
                               match(toks, then_branch.pos, {"ELSE"}),
                               else_branch.node))))))))

parse_statement(toks, pos) ==
    IF match(toks, pos, {"BLOCK"}) THEN parse_block_statement(toks, pos)
    ELSE IF match(toks, pos, {"ATOM"}) THEN parse_atom_statement(toks, pos)
    ELSE IF match(toks, pos, {"OPTS"}) THEN parse_opts_statement(toks, pos)
    ELSE IF match(toks, pos, {"IF"}) THEN parse_if_statement(toks, pos)
    ELSE IF match(toks, pos, {"IDENTIFIER"})
         THEN IF peek_token(toks, pos, 1).type = "EQUALS"
              THEN parse_variable_assignment(toks, pos)
              ELSE parse_function_call(toks, pos)
    ELSE Parsed(advance_token(toks, pos), NoneNode)

\* Parser.parse: the result's node is Program.statements
RECURSIVE parse_loop(_, _, _)
parse_loop(toks, pos, statements) ==
    IF match(toks, pos, {"EOF"}) THEN Parsed(pos, statements)
    ELSE IF match(toks, skip_newlines(toks, pos), {"EOF"})
    THEN Parsed(skip_newlines(toks, pos), statements)
    ELSE Then(parse_statement(toks, skip_newlines(toks, pos)), LAMBDA stmt :
         parse_loop(toks, skip_newlines(toks, stmt.pos), Collect(statements, stmt.node)))

\* A parser that joins two statements separated by `&&` or `||` into one
\* CompoundStatement.
parse_joining(toks) ==
    LET r == parse_loop(toks, 1, <<>>) IN
    IF ~r.raised /\ Len(r.node) = 2 /\ \E k \in DOMAIN toks : toks[k].type \in {"AND", "OR"}
    THEN [r EXCEPT !.node =
             <<CompoundStatement(r.node[1],
                                 IF \E k \in DOMAIN toks : toks[k].type = "AND"
                                 THEN "&&" ELSE "||",
                                 r.node[2])>>]
    ELSE r

parse(toks) == parse_loop(toks, 1, <<>>)

(***************************************************************************)
(* Parsing and running: a token list as Lexer.tokenize leaves one (the     *)
(* tokens in order, each on the line its text is on, the EOF token last)   *)
(* is parsed, and the Program that parse returns is evaluated.             *)
(***************************************************************************)
Lexeme(type, value) == [type |-> type, value |-> value]

ParAlphabet ==
    {Lexeme("IF", <<"i", "f">>), Lexeme("THEN", <<"t", "h", "e", "n">>),
     Lexeme("ELSE", <<"e", "l", "s", "e">>), Lexeme("FI", <<"f", "i">>),
     Lexeme("OPTS", <<"o", "p", "t", "s">>),
     Lexeme("LBRACE", <<"{">>), Lexeme("RBRACE", <<"}">>),
     Lexeme("NEWLINE", <<"\n">>), Lexeme("EQUALS", <<"=">>),
     Lexeme("IDENTIFIER", <<"r", "e", "t", "u", "r", "n">>),
     Lexeme("STRING", <<"1">>), Lexeme("NUMBER", <<"1">>)}

\* The line of the i-th token: the lexer counts a line at every newline,
\* after it has emitted the NEWLINE token.
LineAt(lexemes, i) ==
    1 + Cardinality({j \in 1..(i - 1) : j <= Len(lexemes) /\ lexemes[j].type = "NEWLINE"})

\* The parser reads no column: the model numbers the tokens of a line.
ColumnAt(lexemes, i) ==
    Cardinality({j \in 1..i : LineAt(lexemes, j) = LineAt(lexemes, i)})

TokenList(lexemes) ==
    [i \in 1..(Len(lexemes) + 1) |->
        IF i <= Len(lexemes)
        THEN Token(lexemes[i].type, lexemes[i].value, LineAt(lexemes, i), ColumnAt(lexemes, i))
        ELSE Token("EOF", <<>>, LineAt(lexemes, i), ColumnAt(lexemes, i))]

ParOnly == UNCHANGED <<lexVars, sessVars, expVars, coVars>>

\* Parser(tokens).parse() returns a Program
Parse ==
    /\ parPc = "ready"
    /\ \E r \in {parse(parTokens)} :
          /\ ~r.raised
          /\ parOut' = r
    /\ parPc' = "parsed"
    /\ UNCHANGED <<parTokens, evalVars>>
    /\ ParOnly

\* Parser(tokens).parse() raises SyntaxError
ParseRaise ==
    /\ parPc = "ready"
    /\ \E r \in {parse(parTokens)} :
          /\ r.raised
          /\ parOut' = r
    /\ parPc' = "raised"
    /\ UNCHANGED <<parTokens, evalVars>>
    /\ ParOnly

\* Interpreter.evaluate(program), with no arguments on the command line
Load ==
    /\ parPc = "parsed"
    /\ evPc = "off"
    /\ program' = parOut.node
    /\ argv' = <<>>
    /\ evPc' = "run"
    /\ stmtIdx' = 1
    /\ parPc' = "loaded"
    /\ UNCHANGED <<interp, parTokens, parOut>>
    /\ ParOnly

ParStart ==
    /\ parTokens \in {TokenList(lexemes) : lexemes \in SeqsUpTo(ParAlphabet, MaxToks)}
    /\ parPc = "ready"
    /\ parOut = Parsed(1, NoneNode)

ParNext ==
    \/ Parse
    \/ ParseRaise
    \/ Load
    \/ EvalStatement
    \/ EvalExit
    \/ EvalRaise
    \/ EvalReturn

ParInit == ParStart /\ LexIdle /\ SessIdle /\ ExpIdle /\ EvalIdle /\ CoIdle

SpecParse == ParInit /\ [][ParNext]_vars

(***************************************************************************)
(* Parsing and running token lists with `&&` and `||` between calls.       *)
(***************************************************************************)
JoinAlphabet ==
    {Lexeme("IDENTIFIER", <<"f">>), Lexeme("IDENTIFIER", <<"g">>),
     Lexeme("IDENTIFIER", <<"r", "e", "t", "u", "r", "n">>),
     Lexeme("AND", <<"&", "&">>), Lexeme("OR", <<"|", "|">>),
     Lexeme("NEWLINE", <<"\n">>),
     Lexeme("IF", <<"i", "f">>), Lexeme("THEN", <<"t", "h", "e", "n">>),
     Lexeme("FI", <<"f", "i">>)}

JoinStart ==
    /\ parTokens \in {TokenList(lexemes) : lexemes \in SeqsUpTo(JoinAlphabet, MaxToks)}
    /\ parPc = "ready"
    /\ parOut = Parsed(1, NoneNode)

JoinInit == JoinStart /\ LexIdle /\ SessIdle /\ ExpIdle /\ EvalIdle /\ CoIdle

SpecCompound == JoinInit /\ [][ParNext]_vars

\* Whether a node is, or holds, a CompoundStatement.
RECURSIVE HoldsCompound(_)
HoldsCompound(node) ==
    CASE node.kind = "CompoundStatement" -> TRUE
      [] node.kind = "IfStatement" ->
            \/ HoldsCompound(node.condition)
            \/ \E i \in DOMAIN node.then_branch : HoldsCompound(node.then_branch[i])
            \/ /\ node.has_else
               /\ \E i \in DOMAIN node.else_branch : HoldsCompound(node.else_branch[i])
      [] node.kind = "OptsStatement" ->
            \E i \in DOMAIN node.body : HoldsCompound(node.body[i])
      [] OTHER -> FALSE

\* The token list with a NEWLINE in the place of every `&&` and `||`.
Separated(toks) ==
    [i \in DOMAIN toks |->
        IF toks[i].type \in {"AND", "OR"} THEN [toks[i] EXCEPT !.type = "NEWLINE"]
        ELSE toks[i]]

\* The calls of the session made for the statements of the program.
CallsMade == SelectSeq(interp.log, LAMBDA e : e.kind = "call")

\* C27: the Program that parse builds holds no CompoundStatement: an `&&`
\* or `||` after a statement only separates it from the next one, the
\* Program being the one parsed with a newline in its place; and when the
\* program is `f && g` or `f || g`, a run that ends has called f and then g,
\* whatever f returned.
C27_NoCompoundStatement ==
    /\ parPc \in {"parsed", "loaded"} =>
          /\ \A i \in DOMAIN parOut.node : ~HoldsCompound(parOut.node[i])
          /\ ~parse(Separated(parTokens)).raised
          /\ parOut.node = parse(Separated(parTokens)).node
    /\ (/\ evPc = "done"
        /\ Len(parTokens) = 4
        /\ parTokens[1].value = <<"f">>
        /\ parTokens[2].type \in {"AND", "OR"}
        /\ parTokens[3].value = <<"g">>) =>
          /\ Len(CallsMade) = 2
          /\ CallsMade[1].cmd = FunctionCmd(<<"f">>, <<>>)
          /\ CallsMade[2].cmd = FunctionCmd(<<"g">>, <<>>)

\* f && g has run to its end, f failing and g called all the same.
C27_RightRunsAfterFailure ==
    /\ evPc = "done"
    /\ Len(parTokens) = 4
    /\ parTokens[1].value = <<"f">>
    /\ parTokens[2].type = "AND"
    /\ parTokens[3].value = <<"g">>
    /\ Len(CallsMade) = 2
    /\ CallsMade[1].rc # 0

\* C19: when a text is `$(` command `)` and the command has nested,
\* balanced parentheses, the expansion sends the whole command to the
\* session, once, and the result is the output of that call (or, the call
\* failing, the text as it was) with nothing left over.
C19_NestedSubstitutionIsOne ==
    (/\ expPc = "full"
     /\ Encloses(expText, <<"$", "(">>, <<")">>)
     /\ Balanced(Inner(expText, <<"$", "(">>, <<")">>))
     /\ \E i \in DOMAIN expText : i > 2 /\ expText[i] = "(") =>
        /\ expCmds = <<Inner(expText, <<"$", "(">>, <<")">>)>>
        /\ \E o \in Outcomes : expOut = IF o.raises THEN expText ELSE Strip(o.out)

(***************************************************************************)
(* Claims about the commands forwarded to the session.                     *)
(***************************************************************************)
\* The double quotes of a command text that no backslash escapes
UnescapedQuotes(cmd) ==
    Cardinality({i \in DOMAIN cmd : cmd[i] = "\"" /\ (i = 1 \/ cmd[i - 1] # "\\")})

\* The double quotes that delimit the arguments of an invocation: one pair
\* around the command of a block, around the description and the command
\* of an atom, and around each argument of a call.
DelimitersOnly(entry) ==
    CASE entry.kind = "block" -> UnescapedQuotes(entry.cmd) = 2
      [] entry.kind = "atom" -> UnescapedQuotes(entry.cmd) = 4
      [] entry.kind = "call" ->
            \E t \in DOMAIN interp.trace :
                LET node == interp.trace[t].node IN
                /\ node.kind = "FunctionCall"
                /\ StartsWith(entry.cmd, node.name \o <<" ">>)
                /\ UnescapedQuotes(entry.cmd) = 2 * Len(node.args)

\* C21: in every block, atom and call command submitted to the session the
\* newlines and double quotes of the forwarded text are escaped: the
\* command is one line, and its only bare double quotes are those that
\* delimit its arguments.
C21_ForwardedTextEscaped ==
    \A k \in DOMAIN interp.log :
        interp.log[k].kind \in {"block", "atom", "call"} =>
            /\ \A i \in DOMAIN interp.log[k].cmd : interp.log[k].cmd[i] # "\n"
            /\ DelimitersOnly(interp.log[k])

\* C22: the loop of evaluate_variable_assignment that runs the `$(...)`
\* texts of the value comes to an end for every behaviour of the commands:
\* it is never still finding `$(...)` text after MaxRounds rounds of
\* session calls (a run that is, is marked Unfinished).
C22_AssignmentTerminates == interp.exc # "Unfinished"

IsInvocationEntry(entry) == entry.kind \in {"block", "atom", "call"}

\* The log entries a step of evaluate_program adds
NewEntries == SubSeq(interp'.log, Len(interp.log) + 1, Len(interp'.log))

\* C23: a block or atom statement whose command is a string literal, when
\* it returns, has submitted exactly one invocation, as its last command
\* and after one export for each variable; `block "echo hi"` submits
\* block  "echo hi", and atom "greet" "$x world" with x = hello submits
\* atom "greet" "hello world".
C23_OneInvocationAfterExports ==
    [][(/\ Running
        /\ stmtIdx' = stmtIdx + 1
        /\ program[stmtIdx].kind \in {"BlockStatement", "AtomStatement"}
        /\ program[stmtIdx].command.kind = "StringLiteral") =>
          LET new == NewEntries
              stmt == program[stmtIdx]
              n == Len(new)
              vs == Len(interp.variables) IN
          /\ n > vs
          /\ {k \in 1..n : IsInvocationEntry(new[k])} = {n}
          /\ new[n].kind = IF stmt.kind = "BlockStatement" THEN "block" ELSE "atom"
          /\ \A k \in (n - vs)..(n - 1) :
                /\ new[k].kind = "export"
                /\ new[k].cmd = ExportCmd(interp.variables[k - (n - vs) + 1])
          /\ \A k \in 1..(n - vs - 1) : new[k].kind = "substitution"
          /\ stmt.command.value = <<"e", "c", "h", "o", " ", "h", "i">> =>
                new[n].cmd = <<"b", "l", "o", "c", "k", " ", " ", "\"",
                               "e", "c", "h", "o", " ", "h", "i", "\"">>
          /\ (/\ stmt.kind = "AtomStatement"
              /\ stmt.description = <<"g", "r", "e", "e", "t">>
              /\ stmt.command.value = <<"$", "x", " ", "w", "o", "r", "l", "d">>
              /\ DictHas(interp.variables, <<"x">>)
              /\ DictGet(interp.variables, <<"x">>) = <<"h", "e", "l", "l", "o">>) =>
                new[n].cmd = <<"a", "t", "o", "m", " ", "\"", "g", "r", "e", "e", "t", "\"", " ",
                               "\"", "h", "e", "l", "l", "o", " ", "w", "o", "r", "l", "d", "\"">>
      ]_vars

\* x = "hello" and then atom "greet" "$x world" have run: one export and
\* one invocation were submitted.
C23_GreetInvoked ==
    /\ evPc = "run"
    /\ stmtIdx = 3
    /\ program[2].kind = "AtomStatement"
    /\ program[2].description = <<"g", "r", "e", "e", "t">>
    /\ DictHas(interp.variables, <<"x">>)
    /\ Len(interp.log) = 2
    /\ interp.log[1].kind = "export"
    /\ interp.log[2].kind = "atom"

(***************************************************************************)
(* Claims about the parser.                                                *)
(***************************************************************************)
\* How many tokens of type open are still waiting for a later token of type
\* close at the end of the list.
RECURSIVE Unclosed(_, _, _, _, _)
Unclosed(toks, i, open, close, depth) ==
    IF i > Len(toks) THEN depth
    ELSE Unclosed(toks, i + 1, open, close,
                  IF toks[i].type = open THEN depth + 1
                  ELSE IF toks[i].type = close /\ depth > 0 THEN depth - 1
                  ELSE depth)

\* The first position from i on that holds no token of the given type.
RECURSIVE Past(_, _, _)
Past(toks, i, type) ==
    IF i <= Len(toks) /\ toks[i].type = type THEN Past(toks, i + 1, type) ELSE i

\* An opts whose option strings (and the newlines after them) are not
\* followed by an opening brace.
OptsLacksLbrace(toks) ==
    \E i \in DOMAIN toks :
        /\ toks[i].type = "OPTS"
        /\ LET j == Past(toks, Past(toks, i + 1, "STRING"), "NEWLINE") IN
           j > Len(toks) \/ toks[j].type # "LBRACE"

Mismatched(toks) ==
    \/ Unclosed(toks, 1, "IF", "FI", 0) > 0
    \/ Unclosed(toks, 1, "IF", "THEN", 0) > 0
    \/ Unclosed(toks, 1, "OPTS", "RBRACE", 0) > 0
    \/ OptsLacksLbrace(toks)

\* C17: whenever the token list has an `if` without a later `fi` or `then`
\* of its own, or an `opts` without its `{` or its `}`, parse raises a
\* syntax error, returns no Program, and the error names the kind and the
\* line of a token of the list (the offending one).
C17_ErrorNamesOffendingToken ==
    (parPc # "ready" /\ Mismatched(parTokens)) =>
        /\ parPc = "raised"
        /\ parOut.raised
        /\ \E k \in DOMAIN parTokens :
              /\ parTokens[k].type = parOut.got
              /\ parTokens[k].line = parOut.line

\* The tokens at which the argument loop of parse_function_call stops.
CallTerminators == {"NEWLINE", "SEMICOLON", "EOF", "THEN", "ELSE", "FI"}

\* The position of the first terminator after the call name at position 1.
FirstTerminator(toks) ==
    CHOOSE k \in 2..Len(toks) :
        /\ toks[k].type \in CallTerminators
        /\ \A j \in 2..(k - 1) : toks[j].type \notin CallTerminators

\* C26: when a program begins with a function call, every token between
\* the call name and the first terminator (NEWLINE, `;`, end of input,
\* then, else, fi) is an argument of the call: the call has as many
\* arguments as there are tokens between the two.
C26_ArgumentsUpToTerminator ==
    (/\ parPc \in {"parsed", "loaded"}
     /\ parTokens[1].type = "IDENTIFIER"
     /\ parTokens[2].type # "EQUALS") =>
        /\ Len(parOut.node) >= 1
        /\ parOut.node[1].kind = "FunctionCall"
        /\ Len(parOut.node[1].args) = FirstTerminator(parTokens) - 2

\* C31: parse ends on every token list that ends with EOF, returning a
\* Program or raising, and the position it has reached is then a position
\* of the list: it never passes the last token, the EOF.
C31_PositionWithinTokens ==
    parPc \in {"parsed", "raised", "loaded"} =>
        /\ parOut.pos >= 1
        /\ parOut.pos <= Len(parTokens)

\* C15: a program that begins with `return N`, N a number, ends with exit
\* code N: the run exits at the return, with the code given as its
\* argument.
C15_ExitCodeIsArgument ==
    (/\ parPc = "loaded"
     /\ evPc # "run"
     /\ parTokens[1].type = "IDENTIFIER"
     /\ parTokens[1].value = <<"r", "e", "t", "u", "r", "n">>
     /\ parTokens[2].type = "NUMBER") =>
        /\ evPc = "exited"
        /\ interp.should_exit
        /\ interp.exit_code = DigitsValue(parTokens[2].value)

(***************************************************************************)
(* Claims about the truthiness coercion.                                   *)
(***************************************************************************)
\* C11: for every result value (boolean, integer, string, null) the truth
\* value evaluate_compound_statement assigns to its left operand equals the
\* one evaluate_if_statement assigns to it as a condition, with integer 0
\* true, a non-empty string true and the empty string false.
C11_SameCoercion ==
    (coIf # <<>> /\ coLeft # <<>>) =>
        /\ coLeft = coIf
        /\ coValue = VInt(0) => coLeft[1]
        /\ coValue.t = "str" => coLeft[1] = (Len(coValue.s) > 0)

(***************************************************************************)
(* Claims about variable expansion.                                        *)
(***************************************************************************)
\* The text with every occurrence of $name and ${name} whose name is bound
\* replaced by the bound value and every other character kept.
RECURSIVE ExpandBound(_, _, _)
ExpandBound(text, i, variables) ==
    IF i > Len(text) THEN <<>>
    ELSE LET m == VarMatch(text, i) IN
         IF m.found
         THEN (IF DictHas(variables, m.name) THEN DictGet(variables, m.name)
               ELSE SubSeq(text, i, m.end)) \o ExpandBound(text, m.end + 1, variables)
         ELSE <<text[i]>> \o ExpandBound(text, i + 1, variables)

\* C8: variable expansion replaces each occurrence of $name and ${name}
\* whose name is bound by the bound value and leaves each occurrence whose
\* name is unbound textually unchanged.
C8_UnboundLeftUnchanged ==
    expPc \in {"only", "full"} => expOut = ExpandBound(expText, 1, expEnv)

\* C28: for a string literal without command substitutions, the value an
\* assignment stores is the string that _expand_variables makes of the
\* same literal in the same Environment.
C28_AssignmentExpandsAlike ==
    (/\ expPc = "assigned"
     /\ ~\E i \in 1..(Len(expText) - 1) : expText[i] = "$" /\ expText[i + 1] = "(") =>
        \E s \in _expand_variables(expText, [InterpInit EXCEPT !.variables = expEnv]) :
            expOut = s.res.s

(***************************************************************************)
(* Claims about the evaluator.                                             *)
(***************************************************************************)
\* C1: once evaluate_opts_statement has finished, every variable the
\* statement installed holds the value it had immediately before the
\* statement, and is absent from the Environment if it was absent before,
\* however the body ended.
C1_OptsRestoresBindings ==
    \A k \in DOMAIN interp.optsLog :
        LET e == interp.optsLog[k] IN
        \A n \in e.installed :
            IF DictHas(e.before, n)
            THEN DictHas(e.after, n) /\ DictGet(e.after, n) = DictGet(e.before, n)
            ELSE ~DictHas(e.after, n)

\* An opts statement installed a variable that was absent before, its body
\* assigned another value to it and then ended early through return.
C1_RestoredAfterReturn ==
    /\ evPc = "exited"
    /\ \E k \in DOMAIN interp.optsLog :
          LET e == interp.optsLog[k] IN
          /\ e.exc = "SystemExit"
          /\ \E n \in e.installed :
                /\ ~DictHas(e.before, n)
                /\ DictHas(e.atExit, n)
                /\ DictGet(e.atExit, n) # DictGet(e.parsed_vars, n)
                /\ ~DictHas(interp.variables, n)

\* The commands submitted before the k-th one that export the item, with no
\* other command and no Environment change in between.
ExportedBefore(log, k, item) ==
    \E j \in 1..(k - 1) :
        /\ log[j].kind = "export"
        /\ log[j].cmd = ExportCmd(item)
        /\ ~log[j].raised
        /\ \A m \in j..(k - 1) : log[m].kind = "export" /\ log[m].env = log[k].env

\* C9: every command the evaluator submits to the session for execution is
\* preceded, with no Environment change in between, by export commands for
\* every variable in the Environment with its current value.
C9_ExportsPrecedeEveryCommand ==
    \A k \in DOMAIN interp.log :
        interp.log[k].kind # "export" =>
            \A i \in DOMAIN interp.log[k].env :
                ExportedBefore(interp.log, k, interp.log[k].env[i])

\* The nodes evaluate_if_statement passed to evaluate, in order, in the call
\* recorded as e.
IfChildren(e) ==
    LET during == SubSeq(interp.trace, e.from + 1, e.to)
        direct == SelectSeq(during, LAMBDA t : t.depth = e.depth + 1)
    IN  [i \in DOMAIN direct |-> direct[i].node]

IsPrefix(p, q) == Len(p) <= Len(q) /\ SubSeq(q, 1, Len(p)) = p

\* The branch the claim names for a condition value
ClaimedBranch(e) ==
    IF Coerce(e.condResult) THEN e.node.then_branch
    ELSE IF e.node.has_else THEN e.node.else_branch
    ELSE <<>>

\* The condition of e was a block whose external command exited non-zero.
BlockFailed(e) ==
    /\ e.node.condition.kind = "BlockStatement"
    /\ ~e.condRaised
    /\ e.condLogEnd >= 1
    /\ interp.log[e.condLogEnd].kind = "block"
    /\ interp.log[e.condLogEnd].rc # 0

\* C10: evaluate_if_statement evaluates its condition exactly once and then
\* runs the statements of at most one branch: the then-branch, each statement
\* once and in order, iff the coerced condition is true, and the else-branch
\* iff it is false and an else-branch exists (the statements up to the one
\* that raised, when one raises).  When the condition is a block whose
\* command exits non-zero, the else-branch runs and the then-branch does not.
C10_ExactlyOneBranch ==
    \A k \in DOMAIN interp.ifLog :
        LET e == interp.ifLog[k]
            children == IfChildren(e)
        IN  /\ children # <<>>
            /\ children[1] = e.node.condition
            /\ e.condRaised => children = <<e.node.condition>>
            /\ ~e.condRaised =>
                  /\ IsPrefix(Tail(children), ClaimedBranch(e))
                  /\ e.exc = "" => Tail(children) = ClaimedBranch(e)
            /\ BlockFailed(e) =>
                  /\ IsPrefix(Tail(children), e.node.else_branch)
                  /\ e.exc = "" => Tail(children) = e.node.else_branch

\* An if statement whose condition was a block that exited non-zero has run
\* the two statements of its else-branch and has returned.
C10_ElseRanOnce ==
    \E k \in DOMAIN interp.ifLog :
        LET e == interp.ifLog[k] IN
        /\ BlockFailed(e)
        /\ e.exc = ""
        /\ Len(e.node.else_branch) = 2
        /\ e.node.then_branch # e.node.else_branch
        /\ IfChildren(e) = <<e.node.condition>> \o e.node.else_branch



\* C12: evaluate_compound_statement evaluates its left operand exactly once;
\* for && it evaluates the right operand iff the left result is truthy, for
\* || iff it is not truthy, and otherwise returns the left result unchanged
\* without evaluating the right operand.
C12_ShortCircuit ==
    \A k \in DOMAIN interp.compLog :
        LET e == interp.compLog[k]
            children == IfChildren(e)
            truthy == Coerce(e.leftResult)
            wantRight == \/ e.node.operator = "&&" /\ truthy
                         \/ e.node.operator = "||" /\ ~truthy
        IN  /\ children # <<>>
            /\ children[1] = e.node.left
            /\ ~e.leftRaised =>
                  /\ children = IF wantRight THEN <<e.node.left, e.node.right>>
                                ELSE <<e.node.left>>
                  /\ ~wantRight => e.result = e.leftResult /\ e.exc = ""

\* The flag and the variable of an option spec, <<>> when it has neither
SpecParts(spec) == Split(spec, ":")

\* argv[j] is the flag of spec and argv[j + 1] is a value
FlagWithValue(spec, j) ==
    /\ Len(SpecParts(spec)) >= 2
    /\ j + 1 <= Len(argv)
    /\ argv[j] = <<"-">> \o SpecParts(spec)[1]
    /\ ~StartsWith(argv[j + 1], <<"-">>)

\* The statements of the body of the opts call e, as evaluate saw them
OptsChildren(e) ==
    SelectSeq(SubSeq(interp.trace, e.from + 1, e.to), LAMBDA t : t.depth = e.depth + 1)

LastWord(e, i, j) ==
    /\ \A i2 \in DOMAIN e.node.option_specs :
          (i2 > i /\ Len(SpecParts(e.node.option_specs[i2])) >= 2) =>
              /\ SpecParts(e.node.option_specs[i2])[1] # SpecParts(e.node.option_specs[i])[1]
              /\ SpecParts(e.node.option_specs[i2])[2] # SpecParts(e.node.option_specs[i])[2]
    /\ \A j2 \in DOMAIN argv : j2 > j => argv[j2] # argv[j]

DeclaredFlags(opts) ==
    {<<"-">> \o SpecParts(opts.option_specs[i])[1] :
        i \in {n \in DOMAIN opts.option_specs : Len(SpecParts(opts.option_specs[n])) >= 2}}

\* C14: if the argument vector contains a flag that no option spec of the
\* opts statement declares, evaluate_opts_statement returns failure,
\* evaluates no statement of its body, submits nothing to the session and
\* leaves the Environment exactly as it was before the statement.
C14_UnknownFlagFails ==
    \A k \in DOMAIN interp.optsLog :
        LET e == interp.optsLog[k] IN
        (\E j \in DOMAIN argv :
            StartsWith(argv[j], <<"-">>) /\ argv[j] \notin DeclaredFlags(e.node)) =>
            /\ e.result = VBool(FALSE)
            /\ OptsChildren(e) = <<>>
            /\ e.logTo = e.logFrom
            /\ e.after = e.before

\* The nodes evaluate_program passed to evaluate, in order
TopLevel ==
    LET direct == SelectSeq(interp.trace, LAMBDA t : t.depth = 0) IN
    [i \in DOMAIN direct |-> direct[i].node]

\* The statement is a block, an atom or an external call
IsInvocation(stmt) ==
    \/ stmt.kind \in {"BlockStatement", "AtomStatement"}
    \/ /\ stmt.kind = "FunctionCall"
       /\ stmt.name \notin {<<"s", "_", "r", "a", "n", "d", "o", "m">>,
                            <<"r", "e", "t", "u", "r", "n">>,
                            <<"u", "_", "c", "o", "n", "f", "i", "r", "m">>}

C20_FailureReachesCaller ==
    (\E k \in DOMAIN interp.log : interp.log[k].raised) => interp.exc # ""

\* C24: a variable that was absent before an opts statement whose body made
\* an external invocation is not exported in the session with the value
\* the statement gave it at any external invocation made after the
\* statement, while the variable is absent from the Environment.
C24_ScopedBindingNotInSession ==
    \A k \in DOMAIN interp.optsLog :
        LET e == interp.optsLog[k] IN
        \A n \in e.installed :
            (/\ ~DictHas(e.before, n)
             /\ \E j \in (e.logFrom + 1)..e.logTo : IsInvocationEntry(interp.log[j])) =>
                \A m \in (e.logTo + 1)..Len(interp.log) :
                    (IsInvocationEntry(interp.log[m]) /\ ~DictHas(interp.log[m].env, n)) =>
                        ~(/\ DictHas(interp.log[m].sess, n)
                          /\ DictGet(interp.log[m].sess, n) = DictGet(e.parsed_vars, n))

\* C25: when what a command printed holds no marker text, the call returns
\* all of it and the command's exit status: the lines before the marker
\* line are the returned stdout, and the marker line, which is bash's echo
\* for this call, holds nothing else that the command printed (its output
\* may have ended without a newline).
C25_StdoutComplete ==
    \A k \in DOMAIN results :
        LET r == results[k] IN
        (/\ r.raised = ""
         /\ r.marker_line.echo
         /\ r.marker_line.by = r.id
         /\ \A n \in DOMAIN r.stdout_lines :
               /\ r.stdout_lines[n].by = r.id
               /\ r.stdout_lines[n].mark = NoMark) =>
            /\ r.marker_line.pre = <<>>
            /\ ParseInt(r.marker_line.suffix).ok
            /\ r.return_code = ParseInt(r.marker_line.suffix).val

\* C30: the stderr a call returns was written while that call's own command
\* ran: no stderr line of an earlier call is returned by a later one.
C30_StderrOfOwnCommand ==
    \A k \in DOMAIN results :
        \A n \in DOMAIN results[k].stderr_lines :
            results[k].stderr_lines[n].by = results[k].id

LexInit == LexStart /\ SessIdle /\ ExpIdle /\ EvalIdle /\ CoIdle /\ ParIdle

SessInit == SessStartState /\ LexIdle /\ ExpIdle /\ EvalIdle /\ CoIdle /\ ParIdle

SpecSession == SessInit /\ [][SessNext]_vars

SpecLexer == LexInit /\ [][LexNext]_vars

(***************************************************************************)
(* Claims about the lexer.                                                 *)
(***************************************************************************)
TokensOfType(type) == {k \in DOMAIN tokens : tokens[k].type = type}

\* C18: for a source `$((` text `))` whose text has balanced parentheses,
\* tokenize emits exactly one arithmetic-expansion token, whose payload is
\* the raw text between `$((` and `))`, and no command-substitution token.
C18_OneArithmeticToken ==
    (/\ Encloses(source, <<"$", "(", "(">>, <<")", ")">>)
     /\ Balanced(Inner(source, <<"$", "(", "(">>, <<")", ")">>))
     /\ lexPc # "run") =>
        /\ lexPc = "done"
        /\ \E k \in DOMAIN tokens :
              /\ TokensOfType("ARITHMETIC_EXPANSION") = {k}
              /\ tokens[k].value = Inner(source, <<"$", "(", "(">>, <<")", ")">>)
        /\ TokensOfType("COMMAND_SUB") = {}


\* The characters of a bare word: letters, digits and _ . - / : @ $.
WordChars == Letters \cup Digits \cup {"_", ".", "-", "/", ":", "@", "$"}

\* C29: a source that is one run of word characters starting with a letter
\* or `_`, and that is not a keyword, lexes as a single IDENTIFIER token
\* whose text is the whole run (followed by the EOF token only).
C29_WordIsOneIdentifier ==
    (/\ lexPc # "run"
     /\ source # <<>>
     /\ \A i \in DOMAIN source : source[i] \in WordChars
     /\ (IsAlpha(source[1]) \/ source[1] = "_")
     /\ KeywordType(source) = "IDENTIFIER") =>
        /\ lexPc = "done"
        /\ Len(tokens) = 2
        /\ tokens[1].type = "IDENTIFIER"
        /\ tokens[1].value = source
        /\ tokens[2].type = "EOF"

\* C6: Lexer.tokenize raises no exception, whatever the source string
\* (a source ending in a space or tab, a source containing `$((`, an
\* unterminated string, an unclassifiable character).
C6_TokenizeNeverRaises == lexPc # "raised"

\* C7: every iteration of the main loop of tokenize advances the read
\* position by at least one character (a lone `&` included).
C7_EveryIterationAdvances == [][lexIters' = lexIters + 1 => position' > position]_vars

====
